---- MODULE Spec2Model ----
(***************************************************************************)
(* Verification model of agentscope-extensions-nacos (python):            *)
(*   - AsyncRWLock                  (agentscope_extension_nacos/utils.py)  *)
(*   - the lazy-initialisation guard _ensure_initialized and the          *)
(*     NacosChatModel built on both (model/nacos_chat_model.py)            *)
(*   - NacosAgentListener: prompt subscription, attach and detach of an    *)
(*     agent, MCP server list, config groups (nacos_react_agent.py)        *)
(*   - the MCP tool clients and their toolkits                             *)
(*     (mcp/agentscope_nacos_mcp.py)                                       *)
(*   - A2aAgent and the conversions between content blocks and parts       *)
(*     (a2a/a2a_agent.py), NacosA2ACardResolver                            *)
(*     (a2a/nacos/nacos_a2a_card_resolver.py)                              *)
(*   - validate_agent_name (utils.py) and NacosExtension                   *)
(* Coroutines are tasks of one asyncio event loop: a task runs from one    *)
(* await that suspends to the next, so one action is one such segment.     *)
(***************************************************************************)
EXTENDS Integers, Sequences, FiniteSets, TLC

\* ------------------------------------------------------------------ bounds
NumTasks == 3                 \* tasks using one AsyncRWLock
NumCallers == 2               \* tasks calling NacosChatModel.__call__
MaxInitRuns == 2              \* executions of NacosChatModel._async_init
MaxPushes == 2                \* pushes of model.json delivered to the listener
MaxListenerInits == 2         \* executions of NacosAgentListener._async_init
MaxListeners == 2             \* listeners registered on one prompt key
MaxToolkits == 1              \* toolkits observing one tool client
MaxSyncToolkits == 2          \* the same, where the notification passes are
                              \* followed to their end
MaxNotifyTasks == 1           \* _notify_toolkits tasks created by callbacks
NumNotifiers == 2             \* _notify_toolkits tasks alive at the same time
MaxItems == 2                 \* items one send_message stream yields
MaxObserved == 1              \* messages passed to A2aAgent.observe (those
                              \* held at a time where ah.track is not set)
MaxRuns == 2                  \* runs of equal characters in an agent name
MaxGetterCalls == 3           \* getter calls made on one NacosExtension
MaxText == 2                  \* characters of the text of a content block
NumCardCallers == 3           \* tasks calling NacosA2ACardResolver.get_agent_card

Tasks == 1 .. NumTasks
Callers == 1 .. NumCallers
Listener == NumCallers + 1    \* the task running user_model_config_listener
ModelTasks == Callers \cup {Listener}
NoTask == 0                   \* _init_lock unlocked
Initer == 1                   \* the task calling NacosAgentListener.initialize
CfgTask == 2                  \* the task running user_prompt_config_listener
BgTask == 3                   \* the task made by _try_start_background_init
ToolCaller == 1               \* the task calling the tool client's methods
Replier == 1                  \* the task calling A2aAgent.reply

VARIABLES
  readers,      \* AsyncRWLock._readers
  writers,      \* AsyncRWLock._writers
  pc,           \* position of every task
  behindWriter, \* history: the last acquire_read that returned did so while
                \* a task was blocked in acquire_write's wait()
  initialized,  \* NacosChatModel._initialized
  initializing, \* NacosChatModel._initializing
  init_lock,    \* NacosChatModel._init_lock: the task holding it, or NoTask
  chat_model,   \* NacosChatModel.chat_model: the active provider instance
  backup_model, \* NacosChatModel._backup_model
  model_provider, \* NacosChatModel.model_provider
  model_listeners, \* listeners registered on model.json by add_listener
  pending,      \* per task: the argument of its set_chat_model call
  callee,       \* per task: the provider its __call__ is suspended in
  made,         \* provider instances constructed so far (instance ids)
  hist,         \* history of the initialisations and pushes (see HistInit)
  listen_chat_model, \* NacosAgentListener._listen_chat_model
  listen_mcp_server, \* NacosAgentListener._listen_mcp_server
  mcp_config,   \* the mcpServerName list of mcp-server.json in the registry
  mcp_server_clients, \* the keys of NacosAgentListener.mcp_server_clients
  l_toolkit,    \* NacosAgentListener.toolkit: None or a toolkit, and its tools
                \* (an attached agent's tools were added to it)
  lh,           \* history of the application's calls of attach_agent,
                \* detach_agent and the getters (see NoCall)
  l_chat_model, \* NacosAgentListener.chat_model: "none", "created" (its
                \* initialize() raised) or "ready"
  l_formatter,  \* NacosAgentListener.formatter is set
  user_prompt_ref, \* NacosAgentListener.user_prompt_ref
  template,     \* NacosAgentListener.template
  prompt,       \* NacosAgentListener.prompt
  agent,        \* NacosAgentListener.agent and that agent's fields
  original,     \* NacosAgentListener._original_prompt, _toolkit, _model, _formatter
  cfg_listeners, \* listeners registered on prompt.json (group ai-agent-<name>)
  content_listeners, \* listeners registered per key of group nacos-ai-prompt
  hloc,         \* locals of the running user_prompt_config_listener, and the
                \* history of its last run
  ph,           \* history of the last NacosAgentListener._async_init
  tools,        \* NacosMCPClientBase._tools
  tools_meta,   \* NacosMCPClientBase._tools_meta
  mcp_server_detail_info, \* NacosMCPClientBase.mcp_server_detail_info
  toolkit_refs, \* the toolkits in NacosMCPClientBase._toolkit_refs
  notify_tasks, \* _notify_toolkits tasks created by the callback so far
  th,           \* history of the tool client's last operations (see NoToolOp)
  is_updating,  \* NacosMCPClientBase._is_updating
  update_lock,  \* NacosMCPClientBase._update_lock: the task holding it, or NoTask
  tk,           \* per toolkit: the tools of this client registered in it
  snap,         \* per _notify_toolkits task: its local list toolkits, from
                \* the toolkit being synchronized on
  is_ready,     \* A2aAgent._is_ready (and _a2a_client_factory is set)
  agent_card,   \* A2aAgent._agent_card
  observed_msgs, \* number of messages in A2aAgent._observed_msgs
  response_msg, \* reply's local response_msg
  ah,           \* history of the A2aAgent's operations (see NoReply)
  vh,           \* history of the last call of validate_agent_name
  extension,    \* a NacosExtension: its server_addr and namespace
  xh,           \* the arguments the NacosExtension was built with, and the
                \* history of its getter calls
  bh,           \* history of the last conversion between a content block and
                \* a part (see NoConversion)
  gh,           \* a NacosAgentListener's agent_name and the groups its
                \* _async_init has looked up so far (see NoLookups)
  rv            \* a NacosA2ACardResolver: its fields, and the history of its
                \* get_agent_card calls (see NewResolver)

rwVars == <<readers, writers, pc, behindWriter>>
guardVars == <<initialized, initializing, init_lock>>
modelVars == <<chat_model, backup_model, model_provider, model_listeners,
               pending, callee, made, hist>>

modelVars_but_hist == <<chat_model, backup_model, model_provider,
                        model_listeners, pending, callee, made>>
lockVars == <<readers, writers, behindWriter>>
promptVars == <<listen_chat_model, listen_mcp_server, mcp_config, mcp_server_clients, l_toolkit, lh, l_chat_model, l_formatter, user_prompt_ref,
                template, prompt, agent, original, cfg_listeners,
                content_listeners, hloc, ph>>

notifyVars == <<is_updating, update_lock, tk, snap>>
toolVars == <<tools, tools_meta, mcp_server_detail_info, toolkit_refs,
              notify_tasks, th, notifyVars>>
a2aVars == <<is_ready, agent_card, observed_msgs, response_msg, ah>>
extraVars == <<bh, gh, rv>>
utilVars == <<vh, extension, xh, extraVars>>
extVars == <<toolVars, a2aVars, utilVars>>

vars == <<readers, writers, pc, behindWriter, initialized, initializing,
          init_lock, chat_model, backup_model, model_provider,
          model_listeners, pending, callee, made, hist, listen_chat_model, listen_mcp_server, mcp_config, mcp_server_clients, l_toolkit, lh,
          l_chat_model, l_formatter, user_prompt_ref, template, prompt, agent,
          original, cfg_listeners, content_listeners, hloc, ph, tools,
          tools_meta, mcp_server_detail_info, toolkit_refs, notify_tasks, th,
          is_updating, update_lock, tk, snap,
          is_ready, agent_card, observed_msgs, response_msg, ah,
          vh, extension, xh, bh, gh, rv>>

\* ============================================================ AsyncRWLock
\* The four operations run under "async with self._lock".  No task is ever
\* suspended while it holds _lock (Condition.wait() releases it, and the
\* bodies hold no other await), so asyncio.Lock.acquire() always finds the
\* lock free and returns without suspending: an operation runs atomically
\* from its call, or from the wake-up of its wait(), to its return or to its
\* next wait().  Positions of a task inside the operations:
\*   ar_wait / aw_wait    suspended in _reader_condition / _writer_condition
\*                        .wait()
\*   ar_woken / aw_woken  notified, not yet resumed (resuming re-acquires
\*                        _lock and tests the loop condition again)

reader_condition_waiters == {t \in DOMAIN pc : pc[t] = "ar_wait"}
writer_condition_waiters == {t \in DOMAIN pc : pc[t] = "aw_wait"}

\* Condition.notify_all() on the reader condition (rd) and / or the writer
\* condition (wr): every waiter becomes runnable.
notify_all(p, rd, wr) ==
  [t \in DOMAIN p |->
     IF rd /\ p[t] = "ar_wait" THEN "ar_woken"
     ELSE IF wr /\ p[t] = "aw_wait" THEN "aw_woken"
     ELSE p[t]]

\* mutant: the reader does not wait for the writer
acquire_read_nowait(t, from, ret) ==
  /\ pc[t] = from
  /\ readers' = readers + 1
  /\ pc' = [pc EXCEPT ![t] = ret]
  /\ UNCHANGED writers

\* acquire_read: while _writers > 0: wait(); _readers += 1
\* (from: where the task is when it calls, or ar_woken; ret: where it returns)
acquire_read(t, from, ret) ==
  /\ pc[t] = from
  /\ IF writers > 0
       THEN /\ pc' = [pc EXCEPT ![t] = "ar_wait"]
            /\ UNCHANGED <<readers, writers>>
       ELSE /\ readers' = readers + 1
            /\ pc' = [pc EXCEPT ![t] = ret]
            /\ UNCHANGED writers

\* mutant: the last reader does not notify the writers
release_read_silent(t, from, ret) ==
  /\ pc[t] = from
  /\ readers' = readers - 1
  /\ pc' = [pc EXCEPT ![t] = ret]
  /\ UNCHANGED writers

\* release_read: _readers -= 1; if _readers == 0: _writer_condition.notify_all()
release_read(t, from, ret) ==
  /\ pc[t] = from
  /\ readers' = readers - 1
  /\ pc' = notify_all([pc EXCEPT ![t] = ret], FALSE, readers - 1 = 0)
  /\ UNCHANGED writers

\* mutant: the writer waits for other writers only, not for readers
acquire_write_noreaders(t, from, ret) ==
  /\ pc[t] = from
  /\ IF writers > 0
       THEN /\ pc' = [pc EXCEPT ![t] = "aw_wait"]
            /\ UNCHANGED <<readers, writers>>
       ELSE /\ writers' = writers + 1
            /\ pc' = [pc EXCEPT ![t] = ret]
            /\ UNCHANGED readers

\* acquire_write: while _readers > 0 or _writers > 0: wait(); _writers += 1
acquire_write(t, from, ret) ==
  /\ pc[t] = from
  /\ IF readers > 0 \/ writers > 0
       THEN /\ pc' = [pc EXCEPT ![t] = "aw_wait"]
            /\ UNCHANGED <<readers, writers>>
       ELSE /\ writers' = writers + 1
            /\ pc' = [pc EXCEPT ![t] = ret]
            /\ UNCHANGED readers

\* release_write: _writers -= 1; notify_all() on both conditions
release_write(t, from, ret) ==
  /\ pc[t] = from
  /\ writers' = writers - 1
  /\ pc' = notify_all([pc EXCEPT ![t] = ret], TRUE, TRUE)
  /\ UNCHANGED readers

\* mutant: a cancelled acquire gives back a hold it never got
cancel_acquire_released(t) ==
  /\ pc[t] \in {"ar_wait", "ar_woken", "aw_wait", "aw_woken"}
  /\ readers' = IF pc[t] \in {"ar_wait", "ar_woken"} /\ readers > 0
                  THEN readers - 1 ELSE readers
  /\ writers' = IF pc[t] \in {"aw_wait", "aw_woken"} /\ writers > 0
                  THEN writers - 1 ELSE writers
  /\ pc' = [pc EXCEPT ![t] = "idle"]

\* The task is cancelled while it is suspended in wait() inside
\* acquire_read or acquire_write: Condition.wait() takes _lock again and
\* raises CancelledError, which leaves the while loop and "async with
\* self._lock" (releasing _lock) before the statement that counts the task
\* in; read_lock() and write_lock() call acquire before their try, so no
\* release follows.  The other waiters stay as they are.
cancel_acquire(t) ==
  /\ pc[t] \in {"ar_wait", "ar_woken", "aw_wait", "aw_woken"}
  /\ pc' = [pc EXCEPT ![t] = "idle"]
  /\ UNCHANGED <<readers, writers>>

\* ========================================================= NacosChatModel
\* A provider instance is its identity and its provider; None is the unset
\* chat_model, Backup the instance given as backup_model.
ProviderTags == {"openai", "anthropic", "ollama", "gemini", "dashscope"}
None == [id |-> 0, provider |-> "none"]
Backup == [id |-> 0, provider |-> "backup"]

\* Contents of model.json: not JSON ("unparsable"), JSON without modelName
\* ("noname"), or a model spec whose modelProvider is a supported provider,
\* another string ("mystery") or absent, and whose provider constructor
\* accepts the arguments (ctor) or raises.
PushedProviders == {"anthropic", "absent", "mystery"}
Payloads ==
  {[kind |-> "unparsable", provider |-> "absent", ctor |-> FALSE],
   [kind |-> "noname", provider |-> "absent", ctor |-> FALSE]}
  \cup [kind : {"spec"}, provider : PushedProviders, ctor : BOOLEAN]

\* model_config.get("modelProvider", "openai")
ProviderOf(payload) ==
  IF payload.provider = "absent" THEN "openai" ELSE payload.provider

\* json.loads(content) and model_config["modelName"] both succeed
Parsed(payload) == payload.kind = "spec"

\* generate_chat_model(): an instance of the provider named by
\* model_provider; raises for any other name, or when the constructor raises.
generate_chat_model(provider, ctor, id) ==
  IF provider \in ProviderTags /\ ctor
    THEN [built |-> TRUE, model |-> [id |-> id, provider |-> provider]]
    ELSE [built |-> FALSE, model |-> None]

\* AutoFormatter.__init__: formatter_dict[str(if_multi_agent)], one formatter
\* per key; a formatter is the provider it formats for and whether it is
\* the multi-agent one.
FormatterKeys ==
  [dashScope |-> "dashscope", gemini |-> "gemini", ollama |-> "ollama",
   anthropic |-> "anthropic", openai |-> "openai"]
formatter_dict(if_multi_agent) ==
  [k \in DOMAIN FormatterKeys |->
     [provider |-> FormatterKeys[k], multi |-> if_multi_agent]]

\* AutoFormatter.get_formatter(): formatter_dict[...].get(
\* self.chat_model.model_provider, formatter_dict[...]["openai"])
get_formatter(if_multi_agent, provider) ==
  IF provider \in DOMAIN formatter_dict(if_multi_agent)
    THEN formatter_dict(if_multi_agent)[provider]
    ELSE formatter_dict(if_multi_agent)["openai"]

\* mutant: falls back to _backup_model without testing it for None
listener_fallback_unchecked(parsed, gen, bk) ==
  IF parsed /\ gen.built
    THEN [raises |-> FALSE, model |-> gen.model]
    ELSE [raises |-> FALSE, model |-> bk]

\* user_model_config_listener, its try / except: the new instance when the
\* payload parsed and the provider was built; else the backup when there is
\* one; else the exception leaves the listener.
listener_fallback(parsed, gen, bk) ==
  IF parsed /\ gen.built
    THEN [raises |-> FALSE, model |-> gen.model]
    ELSE IF bk # None
      THEN [raises |-> FALSE, model |-> bk]
      ELSE [raises |-> TRUE, model |-> None]

\* mutant: a failed construction always fails the initialisation
init_fallback_never(gen, bk) ==
  IF gen.built
    THEN [raises |-> FALSE, model |-> gen.model]
    ELSE [raises |-> TRUE, model |-> None]

\* _async_init, its try / except around set_chat_model(generate_chat_model()):
\* only the construction is covered by the fallback to the backup.
init_fallback(gen, bk) ==
  IF gen.built
    THEN [raises |-> FALSE, model |-> gen.model]
    ELSE IF bk # None
      THEN [raises |-> FALSE, model |-> bk]
      ELSE [raises |-> TRUE, model |-> None]

\* History of one NacosChatModel (not program state):
\*   initRuns             executions of _async_init started
\*   initFailed           an execution of _async_init has raised
\*   initCause            what made the last execution raise: "service"
\*                        (get_config_service), "fetch" (get_config raised
\*                        or found nothing), "parse", "construct", "listen"
\*                        (add_listener); "none" when it has not raised
\*   initPath             what the last execution passed to set_chat_model
\*   pushes               pushes delivered to the listener
\*   pushBefore           chat_model when the last push that raised was
\*                        delivered
\*   pushResult           how the last push ended
\*   lastSet              argument of the last completed set_chat_model
\*   cancelled            what the tasks cancelled so far were doing: "read"
\*                        (blocked in acquire_read), "write" (blocked in
\*                        acquire_write), "init" (running _async_init)
HistInit ==
  [initRuns |-> 0, initFailed |-> FALSE, initCause |-> "none",
   initPath |-> "none", cancelled |-> {},
   pushes |-> 0, pushBefore |-> None, pushResult |-> "none", lastSet |-> None]

\* The state after NacosChatModel.__init__, with or without a backup model.
ModelInit(bk) ==
  /\ initialized = FALSE
  /\ initializing = FALSE
  /\ init_lock = NoTask
  /\ chat_model = None
  /\ backup_model = bk
  /\ model_provider = "openai"
  /\ model_listeners = 0
  /\ pending = [t \in ModelTasks |-> None]
  /\ callee = [t \in ModelTasks |-> None]
  /\ made = 0
  /\ hist = HistInit

ModelFresh == ModelInit(None)

\* ------------------------------------------------- _ensure_initialized
\* mutant: no wait for an initialisation in progress, no lock
ensure_initialized_enter_unguarded(t, from) ==
  /\ pc[t] = from
  /\ IF initialized
       THEN /\ pc' = [pc EXCEPT ![t] = "ei_ret"]
            /\ UNCHANGED <<initializing, init_lock>>
       ELSE /\ init_lock' = t
            /\ initializing' = TRUE
            /\ pc' = [pc EXCEPT ![t] = "ai_service"]
  /\ UNCHANGED initialized

\* _ensure_initialized up to its first suspension: returns when
\* _initialized; sleeps when _initializing; else takes _init_lock (a held
\* lock blocks the task here), sets _initializing and starts _async_init,
\* which suspends in manager.get_config_service().
ensure_initialized_enter(t, from) ==
  /\ pc[t] = from
  /\ IF initialized
       THEN /\ pc' = [pc EXCEPT ![t] = "ei_ret"]
            /\ UNCHANGED <<initializing, init_lock>>
       ELSE IF initializing
         THEN /\ pc' = [pc EXCEPT ![t] = "ei_poll"]
              /\ UNCHANGED <<initializing, init_lock>>
         ELSE /\ init_lock = NoTask
              /\ init_lock' = t
              /\ initializing' = TRUE
              /\ pc' = [pc EXCEPT ![t] = "ai_service"]
  /\ UNCHANGED initialized

\* "while self._initializing: await asyncio.sleep(0.01)" then "return": the
\* sleeper returns at the first wake-up that finds _initializing False.
ensure_initialized_poll(t) ==
  /\ pc[t] = "ei_poll"
  /\ ~initializing
  /\ pc' = [pc EXCEPT ![t] = "ei_ret"]
  /\ UNCHANGED <<initialized, initializing, init_lock>>

\* mutant: the failure path does not reset _initializing
ensure_initialized_raise_noreset(t) ==
  /\ init_lock = t
  /\ init_lock' = NoTask
  /\ pc' = [pc EXCEPT ![t] = "ei_raised"]
  /\ UNCHANGED <<initialized, initializing>>

\* _async_init raised: "except: raise", "finally: _initializing = False",
\* _init_lock released, the exception reaches the caller.
ensure_initialized_raise(t) ==
  /\ init_lock = t
  /\ initializing' = FALSE
  /\ init_lock' = NoTask
  /\ pc' = [pc EXCEPT ![t] = "ei_raised"]
  /\ UNCHANGED initialized

\* The task running _async_init is cancelled: CancelledError is no
\* Exception, so the except clause is passed over; "finally:
\* _initializing = False", _init_lock released, the CancelledError reaches
\* the caller.
ensure_initialized_cancelled(t) ==
  /\ init_lock = t
  /\ initializing' = FALSE
  /\ init_lock' = NoTask
  /\ pc' = [pc EXCEPT ![t] = "ei_raised"]
  /\ UNCHANGED initialized

\* _async_init returned: _initialized = True, then the finally clause.
ensure_initialized_done(t) ==
  /\ init_lock = t
  /\ initialized' = TRUE
  /\ initializing' = FALSE
  /\ init_lock' = NoTask
  /\ pc' = [pc EXCEPT ![t] = "ei_ret"]

\* ===================================================== NacosAgentListener
\* Keys of group nacos-ai-prompt, and the templates they or prompt.json hold
\* ("" is the empty template).  NoKey / NoPrompt: the field is absent (None).
Keys == {"A", "B"}
Templates == {"", "tA", "tB"}
NoKey == "<no key>"
NoPrompt == "<None>"
OwnPrompt == "own"            \* the system prompt an agent is built with

\* Results of get_config(prompt.json) and contents pushed for it: the call
\* raises, the config is absent or empty, it is not JSON, or it is a JSON
\* object with or without "promptRef" and "prompt".
PromptConfigs ==
  [kind : {"dict"}, ref : Keys \cup {NoKey}, prompt : {"tA", NoPrompt}]
  \cup [kind : {"unparsable"}, ref : {NoKey}, prompt : {NoPrompt}]
CfgResults ==
  PromptConfigs
  \cup [kind : {"raise", "absent", "empty"}, ref : {NoKey}, prompt : {NoPrompt}]

\* Results of get_config(<promptRef>) and contents pushed for a prompt key:
\* as above, "notemplate" being JSON without "template".
PromptContents ==
  [kind : {"ok"}, template : Templates]
  \cup [kind : {"unparsable", "notemplate"}, template : {""}]
ContentResults ==
  PromptContents \cup [kind : {"raise", "absent", "empty"}, template : {""}]

\* _set_prompt: the value that becomes self.prompt (and the attached agent's
\* _sys_prompt): "if prompt is None or prompt == '' and
\* self._original_prompt is not None: prompt = self._original_prompt".
set_prompt_value(p, orig) ==
  IF p = NoPrompt \/ (p = "" /\ orig # NoPrompt) THEN orig ELSE p

\* The application's ReActAgent: attached tells whether the listener's
\* self.agent refers to it (None after __init__); sys_prompt, model,
\* formatter and toolkit are the agent's fields ("own": the object the agent
\* was built with, "nacos": the listener's object, "none": None).
UserAgent == [attached |-> FALSE, sys_prompt |-> OwnPrompt, model |-> "own",
              formatter |-> "own", toolkit |-> "own"]

\* The agents an application passes to attach_agent: built with a system
\* prompt or an empty one, with a toolkit or with toolkit None.
Agents == [attached : {FALSE}, sys_prompt : {OwnPrompt, ""}, model : {"own"},
           formatter : {"own"}, toolkit : {"own", "none"}]

\* A toolkit's tools: a dict from tool names to tool functions, here to the
\* provider of the function ("mcp": a client of the listener, "agent": the
\* application).  EmptyToolkit is the dict of a new toolkit (NoToolkit:
\* self.toolkit is None, DynamicToolkit: DynamicToolkit()), OwnTools that
\* of the toolkit the application built its agent with; it has a tool of a
\* name a server offers as well.
EmptyToolkit == [n \in {} |-> "mcp"]
NoToolkit == [made |-> FALSE, tools |-> EmptyToolkit]
DynamicToolkit == [made |-> TRUE, tools |-> EmptyToolkit]
OwnTools == [n \in {"calc", "note"} |-> "agent"]

\* dict.update: the entries of e are put into d
dict_update(d, e) ==
  [n \in DOMAIN d \cup DOMAIN e |-> IF n \in DOMAIN e THEN e[n] ELSE d[n]]

\* mcp-server.json read by _init_listen_mcp_server: the mcpServerName of its
\* servers (McpServers when the listener is built, one of McpServerLists
\* after a change), and the tools each server lists.
McpServers == <<"math", "web">>
McpServerLists == {<<"math", "web">>, <<"math">>}
ServerTools == [s \in {"math", "web"} |->
                 IF s = "math" THEN {"calc"} ELSE {"search"}]

\* toolkit.register_mcp_client(client): the tools of the client's server
\* are registered in the toolkit.
register_mcp_client(reg, server) ==
  dict_update(reg, [n \in ServerTools[server] |-> "mcp"])

\* mutant: the tools of the servers do not reach the toolkit
register_clients_none(reg, servers, k) == reg

\* The loop of _init_listen_mcp_server over the first k of the servers.
RECURSIVE register_clients(_, _, _)
register_clients(reg, servers, k) ==
  IF k = 0 THEN reg
  ELSE register_mcp_client(register_clients(reg, servers, k - 1), servers[k])

\* The originals attach_agent records (all None after __init__).
NoOriginal == [prompt |-> NoPrompt, model |-> "none", formatter |-> "none",
               toolkit |-> "none"]

\* Locals of user_prompt_config_listener that live across its awaits (old:
\* _old_prompt_ref, cfg: the parsed payload) and the history of its last
\* run: the template it fetched, the keys it called remove_listener and
\* add_listener for, whether a content push was handled while it was
\* suspended, and how it ended.
NoRun ==
  [old |-> "", cfg |-> [kind |-> "dict", ref |-> NoKey, prompt |-> NoPrompt],
   fetched |-> "", removed |-> <<>>, added |-> <<>>, interfered |-> FALSE,
   result |-> "none"]

\* History of the last execution of NacosAgentListener._async_init: what
\* get_config returned for model.json and for prompt.json; modelMissing
\* remembers that an earlier execution found model.json absent or empty.
NoFetch == [modelFetch |-> "none", cfgFetch |-> "none", modelMissing |-> FALSE]

\* History of the application's last call of attach_agent, detach_agent or
\* a getter: its name (call), whether the listener was initialized when it
\* was made (ready) and whether it raised; for detach_agent the agent as it
\* was just before the call (before).  given is the agent as it was passed
\* to the last attach_agent and first the system prompt it had when
\* attach_agent returned.
NoCall == [call |-> "none", ready |-> FALSE, raised |-> FALSE,
           before |-> UserAgent, given |-> UserAgent, first |-> NoPrompt]

\* The state after NacosAgentListener.__init__ (listen_prompt enabled).
ListenerInit(lcm, lms) ==
  /\ listen_chat_model = lcm
  /\ listen_mcp_server = lms
  /\ mcp_config = McpServers
  /\ mcp_server_clients = {}
  /\ l_toolkit = NoToolkit
  /\ lh = NoCall
  /\ l_chat_model = "none"
  /\ l_formatter = FALSE
  /\ user_prompt_ref = ""
  /\ template = ""
  /\ prompt = ""
  /\ agent = UserAgent
  /\ original = NoOriginal
  /\ cfg_listeners = 0
  /\ content_listeners = [k \in Keys |-> 0]
  /\ hloc = NoRun
  /\ ph = NoFetch

\* ===================================================== NacosMCPClientBase
ToolNames == {"calc", "search"}

\* A tool, as the client holds it in _tools and as Nacos describes it in
\* toolSpec.tools: its description and the description of its one
\* argument.  The MCP server describes its tools with "d0" and "a0"; in a
\* Nacos tool NoText is a description that is None, respectively an argument
\* without "description".
NoText == "<None>"
NoTool == [here |-> FALSE, description |-> NoText, arg |-> NoText]
ServerTool == [here |-> TRUE, description |-> "d0", arg |-> "a0"]
PlainTool == [here |-> TRUE, description |-> NoText, arg |-> NoText]
NacosTool == [here |-> TRUE, description |-> "d1", arg |-> "a1"]

\* toolSpec.tools when it is a list: both tools without texts, both with
\* texts, or calc alone with texts.
NacosToolLists ==
  {[n \in ToolNames |-> PlainTool], [n \in ToolNames |-> NacosTool],
   [n \in ToolNames |-> IF n = "calc" THEN NacosTool ELSE NoTool]}

\* What _list_tools_impl returns: the tools the MCP server advertises.
ServerToolLists == [ToolNames -> {NoTool, ServerTool}]
NoTools == [n \in ToolNames |-> NoTool]

\* toolSpec.toolsMeta: None, or a dict giving some tools an enabled flag
\* ("absent": the tool has no entry).  _tools_meta is such a dict, never None.
EmptyMeta == [none |-> FALSE, of |-> [n \in ToolNames |-> "absent"]]
MetaDicts ==
  {EmptyMeta,
   [none |-> FALSE, of |-> [n \in ToolNames |-> IF n = "calc" THEN "off" ELSE "absent"]],
   [none |-> FALSE, of |-> [n \in ToolNames |-> IF n = "calc" THEN "off" ELSE "on"]]}
NoneMeta == [none |-> TRUE, of |-> [n \in ToolNames |-> "absent"]]

\* McpServerDetailInfo: toolSpec is None, or has tools (None or a list) and
\* toolsMeta (None or a dict).
NoDetail ==
  [toolSpec |-> FALSE, hasTools |-> FALSE, tools |-> NoTools, toolsMeta |-> NoneMeta]
DetailInfos ==
  {NoDetail}
  \cup [toolSpec : {TRUE}, hasTools : {FALSE}, tools : {NoTools},
        toolsMeta : MetaDicts \cup {NoneMeta}]
  \cup [toolSpec : {TRUE}, hasTools : {TRUE}, tools : NacosToolLists,
        toolsMeta : MetaDicts \cup {NoneMeta}]

\* _check_tools_changed(server_detail_info)
check_tools_changed(meta, d) ==
  IF ~d.toolSpec THEN FALSE
  ELSE IF ~d.hasTools THEN FALSE
  ELSE d.toolsMeta # meta

\* update_tools, the loop body for one tool of toolSpec.tools and the tool
\* of the same name in _tools: the local tool after it.
update_tool(local, nacos) ==
  IF ~(local.here /\ nacos.here) THEN local
  ELSE [here |-> TRUE,
        description |-> IF nacos.description # NoText
                          THEN nacos.description ELSE local.description,
        arg |-> IF nacos.arg # NoText THEN nacos.arg ELSE local.arg]

\* update_tools(server_detail_info): the value it returns and the _tools
\* and _tools_meta it leaves.
update_tools(tl, meta, d) ==
  LET changed == check_tools_changed(meta, d)
      meta2 == IF d.toolsMeta.none THEN EmptyMeta ELSE d.toolsMeta
      tl2 == [n \in ToolNames |-> update_tool(tl[n], d.tools[n])]
  IN  IF ~d.toolSpec
        THEN [changed |-> changed, tools |-> tl, meta |-> meta]
      ELSE IF ~d.hasTools
        THEN [changed |-> changed, tools |-> tl, meta |-> meta2]
      ELSE [changed |-> changed \/ tl2 # tl, tools |-> tl2, meta |-> meta2]

\* mutant: every tool counts as enabled
is_tool_enabled_always(meta, name) == TRUE

\* is_tool_enabled(tool_name)
is_tool_enabled(meta, name) == meta.of[name] # "off"

\* list_tools, step 5: the names of the tools it returns
\* the names of the tools a list holds
offered(tl) == {n \in ToolNames : tl[n].here}

enabled_tools(tl, meta) ==
  {n \in ToolNames : tl[n].here /\ is_tool_enabled(meta, n)}

\* get_callable_function, step 3: whether the target tool is found
find_tool(tl, meta, name) == tl[name].here /\ is_tool_enabled(meta, name)

\* History of the tool client.  Of update_tools: whether it was called,
\* the detail info of its last call, what that call returned, whether the
\* callback then created a notification task, and whether the call repeated
\* the call before it (same detail info, _tools not assigned in between);
\* pushed: the callback has delivered the current detail info.
\* disabled: the tools the last detail info with a toolSpec marks
\* enabled = false.  Of the caller's running or finished operation: its
\* name and argument, the tools _list_tools_impl returned to it, the names
\* list_tools returned and the outcome.  skipped: during the pass in
\* progress a _notify_toolkits task found _is_updating set and returned.
\* due (kept where the passes are followed to their end, else empty): the
\* toolkits that were attached when a callback detected a change
\* and have stayed attached, less those whose last synchronization raised
\* and those synchronized before the server offered other tools.
NoToolOp ==
  [updated |-> FALSE, last |-> NoDetail, changed |-> FALSE, scheduled |-> FALSE,
   repeat |-> FALSE, pushed |-> FALSE, disabled |-> {},
   op |-> "none", name |-> "calc", fetched |-> FALSE, advertised |-> NoTools,
   listed |-> {}, result |-> "none", skipped |-> FALSE, due |-> {}]

\* The tools a detail info marks enabled = false; a detail info without
\* toolSpec carries no marks and leaves the earlier ones.
MarkedDisabled(d, before) ==
  IF ~d.toolSpec THEN before
  ELSE {n \in ToolNames : d.toolsMeta.of[n] = "off"}

\* The toolkits that may observe the client, and the tasks the callback
\* creates to run _notify_toolkits.
Toolkits == 1..MaxSyncToolkits
Observers == 1..MaxToolkits
Notifiers == (ToolCaller + 1)..(ToolCaller + NumNotifiers)

\* The state after NacosMCPClientBase.__init__.
ToolsFresh ==
  /\ tools = NoTools
  /\ tools_meta = EmptyMeta
  /\ mcp_server_detail_info = NoDetail
  /\ toolkit_refs = {}
  /\ is_updating = FALSE
  /\ update_lock = NoTask
  /\ tk = [t \in Toolkits |-> {}]
  /\ snap = [n \in Notifiers |-> <<>>]
  /\ notify_tasks = 0
  /\ th = NoToolOp

\* ================================================================ A2aAgent
\* Agent cards: a card has an identity and a URL.  The URLs are the empty
\* one, one without scheme, one without host, and a complete one.
Urls == {"", "agent.example/rpc", "http://", "http://agent.example/rpc"}
CardIds == {"c1", "c2"}
Cards == [id : CardIds, url : Urls]
NoCard == [id |-> "none", url |-> ""]

\* urlparse(url).scheme and urlparse(url).netloc
url_scheme(u) == IF u \in {"http://", "http://agent.example/rpc"} THEN "http" ELSE ""
url_netloc(u) == IF u = "http://agent.example/rpc" THEN "agent.example" ELSE ""

\* mutant: every card passes the validation
validate_agent_card_any(card) == TRUE

\* _validate_agent_card(card) returns (TRUE) or raises RuntimeError (FALSE).
validate_agent_card(card) ==
  /\ card.url # ""
  /\ url_scheme(card.url) # ""
  /\ url_netloc(card.url) # ""

\* What _agent_card_resolver.get_agent_card() does: it raises, the task is
\* cancelled while it waits, or it returns a card.
Resolutions == [kind : {"card"}, card : Cards]
               \cup [kind : {"raise", "cancel"}, card : {NoCard}]

\* _get_agent_card from the return of the resolver (r.kind # "cancel"):
\* whether it raises, the card it returns and the card it leaves cached.
get_agent_card(cached, r) ==
  IF r.kind = "card" /\ validate_agent_card(r.card)
    THEN [raises |-> FALSE, card |-> r.card, cached |-> r.card]
  ELSE IF cached # NoCard
    THEN [raises |-> FALSE, card |-> cached, cached |-> cached]
  ELSE [raises |-> TRUE, card |-> NoCard, cached |-> cached]

\* Session ids of the A2A protocol; NoId is None.
NoId == "<None>"
NoIds == [task_id |-> NoId, context_id |-> NoId]
SessionIds == {[task_id |-> "T1", context_id |-> "C1"],
               [task_id |-> "T2", context_id |-> "C2"]}

\* _convert_msgs_to_a2a_message: the task_id and context_id of the A2AMessage
\* it builds (message_id, role, parts and metadata are its only arguments).
convert_msgs_to_a2a_message_ids == NoIds

\* ---------------------------------------------- content blocks and parts
\* A text is a sequence of characters; TextChars are the characters tried:
\* two kinds of white space and one other character.
TextChars == {" ", "\n", "x"}
Whitespace == {" ", "\n"}
Texts == UNION {[1..k -> TextChars] : k \in 0..MaxText}

\* str.strip()
RECURSIVE lstrip(_)
lstrip(text) ==
  IF text # <<>> /\ Head(text) \in Whitespace THEN lstrip(Tail(text)) ELSE text
RECURSIVE rstrip(_)
rstrip(text) ==
  IF text # <<>> /\ text[Len(text)] \in Whitespace
    THEN rstrip(SubSeq(text, 1, Len(text) - 1))
    ELSE text
strip(text) == rstrip(lstrip(text))

\* A dict is a function from its keys; NoValue is None, what dict.get
\* returns for a key that is absent.
NoValue == "<None>"
EmptyDict == [k \in {} |-> NoValue]
dict_get(d, k) == IF k \in DOMAIN d THEN d[k] ELSE NoValue
block_get(block, k, default) == IF k \in DOMAIN block THEN block[k] ELSE default

\* json.dumps(data, ensure_ascii=False, indent=2): the JSON text of data
json_dumps(data) == [json |-> data]

\* The metadata of a part: None, or a dict.
NoMetadata == [none |-> TRUE, d |-> EmptyDict]
Metadata(d) == [none |-> FALSE, d |-> d]
BlockTypeKey == "_agentscope_block_type"
ToolNameKey == "_agentscope_tool_name"
ToolCallIdKey == "_agentscope_tool_call_id"
ToolOutputKey == "_agentscope_tool_output"

\* part_metadata.get("_agentscope_block_type") if part_metadata else None
\* (None and the empty dict are both false)
metadata_block_type(metadata) ==
  IF metadata.none \/ DOMAIN metadata.d = {} THEN NoValue
  ELSE dict_get(metadata.d, BlockTypeKey)

\* Content blocks of AgentScope and parts of the A2A protocol; NoPart and
\* NoBlock are the None a conversion returns.
TextBlock(text) == [type |-> "text", text |-> text]
ThinkingBlock(thinking) == [type |-> "thinking", thinking |-> thinking]
ToolUseBlock(id, name, input) ==
  [type |-> "tool_use", id |-> id, name |-> name, input |-> input]
ToolResultBlock(id, name, output) ==
  [type |-> "tool_result", id |-> id, name |-> name, output |-> output]
TextPart(text, metadata) ==
  [kind |-> "text", text |-> text, metadata |-> metadata]
DataPart(data, metadata) ==
  [kind |-> "data", data |-> data, metadata |-> metadata]
UnknownPart == [kind |-> "unknown"]
NoPart == [kind |-> "none"]
NoBlock == [type |-> "none"]

\* mutant: a thinking block is tagged as a text block
convert_content_block_to_part_untagged(block) ==
  LET block_type == block.type
  IN  IF block_type = "text"
        THEN LET text == block_get(block, "text", <<>>)
             IN  IF text # <<>> /\ strip(text) # <<>>
                   THEN TextPart(text, Metadata(BlockTypeKey :> "text"))
                   ELSE NoPart
      ELSE IF block_type = "thinking"
        THEN LET thinking == block_get(block, "thinking", <<>>)
             IN  IF thinking # <<>> /\ strip(thinking) # <<>>
                   THEN TextPart(thinking, Metadata(BlockTypeKey :> "text"))
                   ELSE NoPart
      ELSE IF block_type = "tool_use"
        THEN LET tool_id == block_get(block, "id", NoValue)
                 tool_name == block_get(block, "name", NoValue)
                 tool_input == block_get(block, "input", EmptyDict)
             IN  DataPart(tool_input,
                          Metadata((BlockTypeKey :> "tool_use")
                                   @@ (ToolNameKey :> tool_name)
                                   @@ (ToolCallIdKey :> tool_id)))
      ELSE IF block_type = "tool_result"
        THEN LET tool_id == block_get(block, "id", NoValue)
                 tool_name == block_get(block, "name", NoValue)
                 tool_output == block_get(block, "output", NoValue)
             IN  DataPart((ToolOutputKey :> tool_output),
                          Metadata((BlockTypeKey :> "tool_result")
                                   @@ (ToolNameKey :> tool_name)
                                   @@ (ToolCallIdKey :> tool_id)))
      ELSE NoPart

\* _convert_content_block_to_part(block), for the blocks that are not media
\* blocks (image, audio and video blocks go through
\* _convert_media_block_to_file_part and are not among the blocks tried).
convert_content_block_to_part(block) ==
  LET block_type == block.type
  IN  IF block_type = "text"
        THEN LET text == block_get(block, "text", <<>>)
             IN  IF text # <<>> /\ strip(text) # <<>>
                   THEN TextPart(text, Metadata(BlockTypeKey :> "text"))
                   ELSE NoPart
      ELSE IF block_type = "thinking"
        THEN LET thinking == block_get(block, "thinking", <<>>)
             IN  IF thinking # <<>> /\ strip(thinking) # <<>>
                   THEN TextPart(thinking, Metadata(BlockTypeKey :> "thinking"))
                   ELSE NoPart
      ELSE IF block_type = "tool_use"
        THEN LET tool_id == block_get(block, "id", NoValue)
                 tool_name == block_get(block, "name", NoValue)
                 tool_input == block_get(block, "input", EmptyDict)
             IN  DataPart(tool_input,
                          Metadata((BlockTypeKey :> "tool_use")
                                   @@ (ToolNameKey :> tool_name)
                                   @@ (ToolCallIdKey :> tool_id)))
      ELSE IF block_type = "tool_result"
        THEN LET tool_id == block_get(block, "id", NoValue)
                 tool_name == block_get(block, "name", NoValue)
                 tool_output == block_get(block, "output", NoValue)
             IN  DataPart((ToolOutputKey :> tool_output),
                          Metadata((BlockTypeKey :> "tool_result")
                                   @@ (ToolNameKey :> tool_name)
                                   @@ (ToolCallIdKey :> tool_id)))
      ELSE NoPart

\* _convert_data_part_to_block(data_part)
convert_data_part_to_block(data_part) ==
  LET part_metadata == data_part.metadata
      block_type == metadata_block_type(part_metadata)
  IN  IF block_type = "tool_use"
        THEN ToolUseBlock(dict_get(part_metadata.d, ToolCallIdKey),
                          dict_get(part_metadata.d, ToolNameKey),
                          data_part.data)
      ELSE IF block_type = "tool_result"
        THEN ToolResultBlock(dict_get(part_metadata.d, ToolCallIdKey),
                             dict_get(part_metadata.d, ToolNameKey),
                             dict_get(data_part.data, ToolOutputKey))
      ELSE TextBlock(json_dumps(data_part.data))

\* _convert_part_to_content_block(part), for the parts that are not file
\* parts (a FilePart goes through _convert_file_part_to_media_block and is
\* not among the parts tried); None for a part of unknown type.
convert_part_to_content_block(part) ==
  IF part.kind = "text"
    THEN IF metadata_block_type(part.metadata) = "thinking"
           THEN ThinkingBlock(part.text)
           ELSE TextBlock(part.text)
  ELSE IF part.kind = "data" THEN convert_data_part_to_block(part)
  ELSE NoBlock

\* The blocks tried: text and thinking blocks of every text, tool_use and
\* tool_result blocks, and a block of a type that is not supported.
ToolCallIds == {"call_1", "call_2"}
ToolInputs == {EmptyDict, ("q" :> "x")}
ToolOutputs == {"", "4"}
Blocks ==
  {TextBlock(t) : t \in Texts} \cup {ThinkingBlock(t) : t \in Texts}
  \cup {ToolUseBlock(i, n, a) : i \in ToolCallIds, n \in ToolNames, a \in ToolInputs}
  \cup {ToolResultBlock(i, n, o) : i \in ToolCallIds, n \in ToolNames, o \in ToolOutputs}
  \cup {[type |-> "other"]}

\* The parts tried: text parts and data parts whose metadata is None, the
\* empty dict, a dict of another producer, or a dict with a block type.
BlockTypes == {"text", "thinking", "tool_use", "tool_result", "other"}
Metadatas ==
  {NoMetadata, Metadata(EmptyDict), Metadata("trace" :> "1")}
  \cup {Metadata(BlockTypeKey :> x) : x \in BlockTypes}
  \cup {Metadata((BlockTypeKey :> x) @@ (ToolNameKey :> "calc")
                 @@ (ToolCallIdKey :> "call_1")) : x \in {"tool_use", "tool_result"}}
Datas == {EmptyDict, ("q" :> "x"), (ToolOutputKey :> "4")}
Parts ==
  {TextPart(t, m) : t \in Texts, m \in Metadatas}
  \cup {DataPart(d, m) : d \in Datas, m \in Metadatas}
  \cup {UnknownPart}

\* History of the last conversion: "block" when a block was converted to a
\* part and that part back to a block, "part" when a part was converted to
\* a block; the block, the part, and the block that came back.
NoConversion ==
  [op |-> "none", block |-> NoBlock, part |-> NoPart, back |-> NoBlock]

\* The blocks of the parts of one artifact, in order, None results dropped.
RECURSIVE artifact_blocks(_)
artifact_blocks(parts) ==
  IF parts = <<>> THEN <<>>
  ELSE LET b == convert_part_to_content_block(Head(parts))
       IN  (IF b = NoBlock THEN <<>> ELSE <<b>>) \o artifact_blocks(Tail(parts))

\* The same over all artifacts of a task.
RECURSIVE all_content_blocks(_)
all_content_blocks(artifacts) ==
  IF artifacts = <<>> THEN <<>>
  ELSE artifact_blocks(Head(artifacts)) \o all_content_blocks(Tail(artifacts))

\* Messages reply handles: none (None), the prompt for input, a converted
\* direct message, a status message, an artifact message with its blocks
\* (content "" when it has none), and the two error messages.
NoMsg == [kind |-> "none", content |-> <<>>, error |-> FALSE]
PlainMsg(kind) == [kind |-> kind, content |-> <<>>, error |-> FALSE]
ErrorMsg(kind) == [kind |-> kind, content |-> <<>>, error |-> TRUE]

\* mutant: the artifacts are converted in reverse order
convert_task_artifacts_to_msg_last_first(artifacts) ==
  IF artifacts = <<>> THEN NoMsg
  ELSE [kind |-> "artifact",
        content |-> all_content_blocks(
           [i \in 1..Len(artifacts) |-> artifacts[Len(artifacts) + 1 - i]]),
        error |-> FALSE]

\* _convert_task_artifacts_to_msg(task)
convert_task_artifacts_to_msg(artifacts) ==
  IF artifacts = <<>> THEN NoMsg
  ELSE [kind |-> "artifact", content |-> all_content_blocks(artifacts),
        error |-> FALSE]

\* The artifact lists of the tasks a stream yields.
P42 == TextPart(<<"4", "2">>, NoMetadata)
P7 == TextPart(<<"7">>, Metadata(BlockTypeKey :> "text"))
PHm == TextPart(<<"h", "m">>, Metadata(BlockTypeKey :> "thinking"))
TaskArtifacts ==
  {<<>>, << <<P42>> >>, << <<P7>>, <<P42>> >>,
   << <<UnknownPart, P7>>, <<PHm>> >>,
   << <<>> >>}

\* What the iteration of client.send_message(a2a_message) does next: it
\* yields a direct message or a (task, update) pair, raises, ends, or the
\* task is cancelled while it waits.
StreamItems ==
  [kind : {"pair"}, state : {"working", "completed"}, ids : SessionIds,
   artifacts : TaskArtifacts]
  \cup [kind : {"message", "raise", "end", "cancel"}, state : {"working"},
        ids : {NoIds}, artifacts : {<<>>}]

\* History of the A2aAgent.  session: the ids of the last task received;
\* prevError: the reply before returned an error message.  Of the running
\* or finished operation: its name, whether reply was given a message, the
\* ids known when the outbound message
\* was built and the ids it carries, the cached card before
\* _get_agent_card and what the resolver did, the items the stream
\* yielded ("message" or the state of the task), the artifacts of the last
\* task among them, the last thing the stream
\* did, whether an exception was raised in reply's try statement, and the
\* outcome with the card or message returned.
\* Of the observed messages: how many were passed to observe so far
\* (message i is the i-th of them; _observed_msgs holds the last
\* observed_msgs of them, in order), and for each the number of outbound
\* messages it was merged into (2 stands for two or more); both are kept
\* where track is set.
NoReply ==
  [session |-> NoIds, prevError |-> FALSE, op |-> "none", input |-> FALSE,
   track |-> FALSE, total |-> 0, sent |-> <<>>,
   built |-> FALSE,
   known |-> NoIds, outbound |-> NoIds, before |-> NoCard,
   resolution |-> [kind |-> "raise", card |-> NoCard], seen |-> <<>>,
   lastArtifacts |-> <<>>,
   last |-> [kind |-> "none", state |-> "working", ids |-> NoIds, artifacts |-> <<>>],
   failed |-> FALSE, result |-> "none", card |-> NoCard, returned |-> NoMsg]

\* The state after A2aAgent.__init__ with a resolver.
A2aFresh ==
  /\ is_ready = FALSE
  /\ agent_card = NoCard
  /\ observed_msgs = 0
  /\ response_msg = NoMsg
  /\ ah = NoReply

\* ==================================================== validate_agent_name
\* An agent name is a string, kept as a sequence of runs: run r stands for
\* r.n times the character r.ch.  Chars are the characters tried: a letter,
\* a digit, one of the four punctuation marks allowed, the space, a line
\* feed and a character that is not allowed; Counts are the run lengths.
NameLimit == 128
Chars == {"a", "7", "-", " ", "\n", "!"}
Counts == {1, NameLimit - 1, NameLimit}
Runs == [ch : Chars, n : Counts]
Names == UNION {[1..k -> Runs] : k \in 0..MaxRuns}

\* len(name)
RECURSIVE name_len(_)
name_len(name) ==
  IF name = <<>> THEN 0 ELSE Head(name).n + name_len(Tail(name))

\* name.replace(' ', '_')
replace_spaces(name) ==
  [i \in 1..Len(name) |->
     IF name[i].ch = " " THEN [ch |-> "_", n |-> name[i].n] ELSE name[i]]

\* The characters of the class [a-zA-Z0-9._:-] among those tried.
NameChars == {"a", "7", "-", "_"}

\* re.match(r'^[a-zA-Z0-9._:-]+$', name): one or more characters of the
\* class from the start of the string up to a position where $ matches,
\* which is the end of the string or just before a line feed that ends it.
name_pattern_matches(name) ==
  LET inClass(k) == \A i \in 1..k : name[i].ch \in NameChars
      last == Len(name)
  IN  \/ last >= 1 /\ inClass(last)
      \/ /\ last >= 2
         /\ name[last] = [ch |-> "\n", n |-> 1]
         /\ inClass(last - 1)

\* The result of a call: a ValueError, or the value returned.
ValueError == [raised |-> TRUE, value |-> <<>>]
Returns(v) == [raised |-> FALSE, value |-> v]

\* validate_agent_name(agent_name)
validate_agent_name(agent_name) ==
  LET replaced == replace_spaces(agent_name)
  IN  IF agent_name = <<>> THEN ValueError
      ELSE IF name_len(replaced) > NameLimit THEN ValueError
      ELSE IF ~name_pattern_matches(replaced) THEN ValueError
      ELSE Returns(replaced)

\* History of the last call of validate_agent_name: its argument and its
\* result.
NoValidation == [called |-> FALSE, name |-> <<>>, result |-> ValueError]

\* ------------------------------------------- groups of the agent's configs
\* f"ai-agent-{name}": the prefix followed by the name.
group_name(name) == [prefix |-> "ai-agent-", name |-> name]
NoGroup == [prefix |-> "", name |-> <<>>]

\* NacosAgentListener(agent_name) after __init__, with every listen flag
\* set: step tells how far _async_init has come, and model, mcp and prompt
\* are the groups in which model.json, mcp-server.json and prompt.json were
\* looked up.
NoLookups(agent_name) ==
  [agent_name |-> agent_name, step |-> "new", model |-> NoGroup,
   mcp |-> NoGroup, prompt |-> NoGroup]

\* ================================================== NacosA2ACardResolver
CardCallers == 1 .. NumCardCallers

\* The cards the registry holds for the remote agent.
ResolverCards == {c \in Cards : c.url = "http://agent.example/rpc"}

\* The outcome of a get_agent_card call: none yet, the value returned
\* (NoCard stands for None) or an exception.
CardPending == [kind |-> "pending", card |-> NoCard]
CardReturned(card) == [kind |-> "returned", card |-> card]
CardRaised == [kind |-> "raised", card |-> NoCard]

\* NacosA2ACardResolver(remote_agent_name) after __init__.  runs counts the
\* executions of _async_init, failed tells that one of them raised,
\* subscribed that subscribe_agent_card has returned, result keeps the
\* outcome of every call.
NewResolver ==
  [initialized |-> FALSE, initializing |-> FALSE, init_lock |-> NoTask,
   agent_card |-> NoCard, subscribed |-> FALSE, runs |-> 0, failed |-> FALSE,
   result |-> [c \in CardCallers |-> CardPending]]

\* ========================================================= NacosExtension
\* The server addresses and the namespaces an extension is built with.
ServerAddrs == {"localhost:8848", "127.0.0.1:8848", "nacos.example:80", ""}
Namespaces == {"public", "test-namespace", "localhost:8848", ""}

\* NacosExtension(server_addr, namespace): the state after __init__; xh
\* keeps the arguments, the last getter called, what it returned and the
\* number of getter calls so far.
NacosExtension(a, n) ==
  /\ extension = [server_addr |-> a, namespace |-> n]
  /\ xh = [server_addr |-> a, namespace |-> n, call |-> "none",
           returned |-> "", calls |-> 0]

\* mutant: get_server_addr returns the namespace
get_server_addr_other == extension.namespace

\* get_server_addr()
get_server_addr == extension.server_addr

\* get_namespace()
get_namespace == extension.namespace

\* No name has been validated; an extension has been built as in the
\* repository's test.
\* No conversion has been made.
\* A listener has been built for the agent "a" and a resolver has been
\* built; neither has been used.
ExtraFresh ==
  /\ bh = NoConversion
  /\ gh = NoLookups(<<[ch |-> "a", n |-> 1]>>)
  /\ rv = NewResolver

UtilFresh ==
  /\ vh = NoValidation
  /\ NacosExtension("localhost:8848", "test-namespace")
  /\ ExtraFresh

\* What the calls of the utilities leave alone.
UtilFrame ==
  UNCHANGED <<lockVars, pc, guardVars, modelVars, promptVars, toolVars,
              a2aVars>>

\* The application calls validate_agent_name(s).
ValidateCall ==
  /\ \E s \in Names :
       vh' = [called |-> TRUE, name |-> s, result |-> validate_agent_name(s)]
  /\ UNCHANGED <<extension, xh, extraVars>>
  /\ UtilFrame

\* The application calls extension.get_server_addr().
GetServerAddr ==
  /\ xh.calls < MaxGetterCalls
  /\ xh' = [xh EXCEPT !.call = "get_server_addr",
                      !.returned = get_server_addr, !.calls = @ + 1]
  /\ UNCHANGED <<extension, vh, extraVars>>
  /\ UtilFrame

\* The application calls extension.get_namespace().
GetNamespace ==
  /\ xh.calls < MaxGetterCalls
  /\ xh' = [xh EXCEPT !.call = "get_namespace",
                      !.returned = get_namespace, !.calls = @ + 1]
  /\ UNCHANGED <<extension, vh, extraVars>>
  /\ UtilFrame

\* -------------------------------------------------- tasks using the lock
\* Tasks call the operations in matched pairs, as read_lock() and
\* write_lock() do: idle -> reading -> idle, idle -> writing -> idle.
InAcquireWrite(t) == pc[t] \in {"aw_wait", "aw_woken"}

RWInit ==
  /\ readers = 0
  /\ writers = 0
  /\ pc = [t \in Tasks |-> "idle"]
  /\ behindWriter = FALSE
  /\ ModelFresh
  /\ ListenerInit(TRUE, FALSE)
  /\ ToolsFresh
  /\ A2aFresh
  /\ UtilFresh

\* behindWriter records whether the acquire_read that just returned did so
\* while a task was waiting inside acquire_write.
ReadGranted(t) ==
  behindWriter' = IF pc'[t] = "reading"
                    THEN \E w \in Tasks : InAcquireWrite(w)
                    ELSE behindWriter

RWFrame == UNCHANGED <<guardVars, modelVars, promptVars, extVars>>

RWAcquireRead ==
  /\ \E t \in Tasks : acquire_read(t, "idle", "reading") /\ ReadGranted(t)
  /\ RWFrame
RWAcquireReadResume ==
  /\ \E t \in Tasks : acquire_read(t, "ar_woken", "reading") /\ ReadGranted(t)
  /\ RWFrame
RWReleaseRead ==
  /\ \E t \in Tasks : release_read(t, "reading", "idle")
  /\ UNCHANGED behindWriter
  /\ RWFrame
RWAcquireWrite ==
  /\ \E t \in Tasks : acquire_write(t, "idle", "writing")
  /\ UNCHANGED behindWriter
  /\ RWFrame
RWAcquireWriteResume ==
  /\ \E t \in Tasks : acquire_write(t, "aw_woken", "writing")
  /\ UNCHANGED behindWriter
  /\ RWFrame
RWReleaseWrite ==
  /\ \E t \in Tasks : release_write(t, "writing", "idle")
  /\ UNCHANGED behindWriter
  /\ RWFrame

RWNext ==
  \/ RWAcquireRead
  \/ RWAcquireReadResume
  \/ RWReleaseRead
  \/ RWAcquireWrite
  \/ RWAcquireWriteResume
  \/ RWReleaseWrite

SpecRW == RWInit /\ [][RWNext]_vars

\* The same tasks under the scheduling of the event loop: a task that was
\* notified is resumed, and a task that holds the lock leaves its "async
\* with" block and releases it.
StepOf(t) == pc[t] # "idle" /\ pc'[t] # pc[t]
RWFairness ==
  \A t \in Tasks :
    /\ WF_vars(RWAcquireReadResume /\ StepOf(t))
    /\ WF_vars(RWAcquireWriteResume /\ StepOf(t))
    /\ WF_vars(RWReleaseRead /\ StepOf(t))
    /\ WF_vars(RWReleaseWrite /\ StepOf(t))

SpecRWLive == RWInit /\ [][RWNext]_vars /\ RWFairness

\* ------------------------------------------- NacosChatModel, its tasks
\* Results of nacos_config_service.get_config(model.json): the call raises,
\* the config is absent (None) or empty, or it has a content.
FetchResults ==
  Payloads \cup [kind : {"raise", "absent", "empty"}, provider : {"absent"},
                 ctor : {FALSE}]

InitFailed(cause) ==
  hist' = [hist EXCEPT !.initFailed = TRUE, !.initCause = cause]

\* A task calls __call__, which awaits _ensure_initialized().
MCall ==
  /\ UNCHANGED <<promptVars, extVars>>
  /\ \E t \in Callers :
    /\ (~initialized /\ ~initializing) => hist.initRuns < MaxInitRuns
    /\ ensure_initialized_enter(t, "idle")
    /\ hist' = IF pc'[t] = "ai_service"
                 THEN [hist EXCEPT !.initRuns = @ + 1, !.initCause = "none",
                                   !.initPath = "none"]
                 ELSE hist
    /\ UNCHANGED <<readers, writers, behindWriter, chat_model, backup_model,
                   model_provider, model_listeners, pending, callee, made>>

MPoll ==
  /\ UNCHANGED <<promptVars, extVars>>
  /\ \E t \in Callers :
    /\ ensure_initialized_poll(t)
    /\ UNCHANGED <<readers, writers, behindWriter, modelVars>>

\* _async_init: "await manager.get_config_service(...)" returns or raises.
MInitService ==
  /\ UNCHANGED <<promptVars, extVars>>
  /\ \E t \in Callers, ok \in BOOLEAN :
    /\ pc[t] = "ai_service"
    /\ IF ok
         THEN /\ pc' = [pc EXCEPT ![t] = "ai_fetch"]
              /\ UNCHANGED <<guardVars, hist>>
         ELSE /\ ensure_initialized_raise(t)
              /\ InitFailed("service")
    /\ UNCHANGED <<readers, writers, behindWriter, chat_model, backup_model,
                   model_provider, model_listeners, pending, callee, made>>

\* _async_init from the return of get_config(model.json) to the call of
\* set_chat_model: absent or empty config raises; json.loads and
\* ["modelName"] run outside the try; the fields are assigned before
\* generate_chat_model() runs inside it.
MInitFetch ==
  /\ UNCHANGED <<promptVars, extVars>>
  /\ \E t \in Callers, r \in FetchResults :
    /\ pc[t] = "ai_fetch"
    /\ LET gen == generate_chat_model(ProviderOf(r), r.ctor, made + 1)
           fb == init_fallback(gen, backup_model)
       IN  IF ~Parsed(r)
             THEN /\ ensure_initialized_raise(t)
                  /\ InitFailed(IF r.kind \in {"raise", "absent", "empty"}
                                  THEN "fetch" ELSE "parse")
                  /\ UNCHANGED <<model_provider, pending, made>>
             ELSE /\ model_provider' = ProviderOf(r)
                  /\ IF fb.raises
                       THEN /\ ensure_initialized_raise(t)
                            /\ InitFailed("construct")
                            /\ UNCHANGED <<pending, made>>
                       ELSE /\ pending' = [pending EXCEPT ![t] = fb.model]
                            /\ made' = IF gen.built THEN made + 1 ELSE made
                            /\ pc' = [pc EXCEPT ![t] = "set_call"]
                            /\ hist' = [hist EXCEPT !.initPath =
                                          IF gen.built THEN "primary" ELSE "backup"]
                            /\ UNCHANGED guardVars
    /\ UNCHANGED <<readers, writers, behindWriter, chat_model, backup_model,
                   model_listeners, callee>>

\* set_chat_model: "async with self.model_lock.write_lock()"
MSetAcquire ==
  /\ UNCHANGED <<promptVars, extVars>>
  /\ \E t \in ModelTasks :
    /\ acquire_write(t, "set_call", "writing")
    /\ UNCHANGED <<behindWriter, guardVars, modelVars>>

MSetResume ==
  /\ UNCHANGED <<promptVars, extVars>>
  /\ \E t \in ModelTasks :
    /\ acquire_write(t, "aw_woken", "writing")
    /\ UNCHANGED <<behindWriter, guardVars, modelVars>>

\* mutant: the assignment is skipped
set_chat_model_write_skip(t, ret) ==
  /\ UNCHANGED chat_model
  /\ release_write(t, "writing", ret)

\* set_chat_model under the write lock: self.chat_model = chat_model, then
\* the lock is released and the call returns to ret.
set_chat_model_write(t, ret) ==
  /\ chat_model' = pending[t]
  /\ release_write(t, "writing", ret)

MSetWrite ==
  /\ UNCHANGED <<promptVars, extVars>>
  /\ \E t \in ModelTasks :
    /\ set_chat_model_write(t, IF t = Listener THEN "idle" ELSE "ai_listen")
    /\ hist' = [hist EXCEPT !.lastSet = pending[t]]
    /\ pending' = [pending EXCEPT ![t] = None]
    /\ UNCHANGED <<behindWriter, guardVars, backup_model, model_provider,
                   model_listeners, callee, made>>

\* _async_init: "await add_listener(model.json, ...)" returns or raises;
\* when it returns _async_init is complete.
MInitListen ==
  /\ UNCHANGED <<promptVars, extVars>>
  /\ \E t \in Callers, ok \in BOOLEAN :
    /\ pc[t] = "ai_listen"
    /\ IF ok
         THEN /\ model_listeners' = model_listeners + 1
              /\ ensure_initialized_done(t)
              /\ UNCHANGED hist
         ELSE /\ ensure_initialized_raise(t)
              /\ InitFailed("listen")
              /\ UNCHANGED model_listeners
    /\ UNCHANGED <<readers, writers, behindWriter, chat_model, backup_model,
                   model_provider, pending, callee, made>>

\* __call__ after _ensure_initialized returned: "async with
\* self.model_lock.read_lock()", then self.chat_model(...) is called and
\* the task is suspended inside that provider (a chat_model of None raises
\* TypeError, which leaves through release_read like a return).
CallGranted(t) ==
  callee' = IF pc'[t] = "in_provider"
              THEN [callee EXCEPT ![t] = chat_model]
              ELSE callee

MCallAcquire ==
  /\ UNCHANGED <<promptVars, extVars>>
  /\ \E t \in Callers :
    /\ acquire_read(t, "ei_ret", "in_provider")
    /\ CallGranted(t)
    /\ UNCHANGED <<behindWriter, guardVars, chat_model, backup_model,
                   model_provider, model_listeners, pending, made, hist>>

MCallResume ==
  /\ UNCHANGED <<promptVars, extVars>>
  /\ \E t \in Callers :
    /\ acquire_read(t, "ar_woken", "in_provider")
    /\ CallGranted(t)
    /\ UNCHANGED <<behindWriter, guardVars, chat_model, backup_model,
                   model_provider, model_listeners, pending, made, hist>>

\* The provider's call completes; read_lock() releases the lock.
MCallReturn ==
  /\ UNCHANGED <<promptVars, extVars>>
  /\ \E t \in Callers :
    /\ release_read(t, "in_provider", "idle")
    /\ callee' = [callee EXCEPT ![t] = None]
    /\ UNCHANGED <<behindWriter, guardVars, chat_model, backup_model,
                   model_provider, model_listeners, pending, made, hist>>

\* The exception of _ensure_initialized leaves __call__.
MCallRaised ==
  /\ UNCHANGED <<promptVars, extVars>>
  /\ \E t \in Callers :
    /\ pc[t] = "ei_raised"
    /\ pc' = [pc EXCEPT ![t] = "idle"]
    /\ UNCHANGED <<readers, writers, behindWriter, guardVars, modelVars>>

\* user_model_config_listener up to its first suspension (the registry
\* delivers the pushes of one key one after the other): parse, assign the
\* fields, generate_chat_model(), then set_chat_model of the new instance
\* or of the backup, or raise.
MPush ==
  /\ UNCHANGED <<promptVars, extVars>>
  /\ \E p \in Payloads :
    /\ pc[Listener] = "idle"
    /\ model_listeners > 0
    /\ hist.pushes < MaxPushes
    /\ LET gen == generate_chat_model(ProviderOf(p), p.ctor, made + 1)
           fb == listener_fallback(Parsed(p), gen, backup_model)
       IN  /\ model_provider' = IF Parsed(p) THEN ProviderOf(p) ELSE model_provider
           /\ made' = IF Parsed(p) /\ gen.built THEN made + 1 ELSE made
           /\ IF fb.raises
                THEN /\ UNCHANGED <<pc, pending>>
                     /\ hist' = [hist EXCEPT !.pushes = @ + 1,
                                   !.pushBefore = chat_model,
                                   !.pushResult = "raised"]
                ELSE /\ pc' = [pc EXCEPT ![Listener] = "set_call"]
                     /\ pending' = [pending EXCEPT ![Listener] = fb.model]
                     /\ hist' = [hist EXCEPT !.pushes = @ + 1,
                                   !.pushResult =
                                     IF Parsed(p) /\ gen.built
                                       THEN "swapped" ELSE "backup"]
    /\ UNCHANGED <<readers, writers, behindWriter, guardVars, chat_model,
                   backup_model, model_listeners, callee>>

MInit ==
  /\ readers = 0
  /\ writers = 0
  /\ pc = [t \in ModelTasks |-> "idle"]
  /\ behindWriter = FALSE
  /\ \E bk \in {None, Backup} : ModelInit(bk)
  /\ ListenerInit(TRUE, FALSE)
  /\ ToolsFresh
  /\ A2aFresh
  /\ UtilFresh

MNext ==
  \/ MCall
  \/ MPoll
  \/ MInitService
  \/ MInitFetch
  \/ MSetAcquire
  \/ MSetResume
  \/ MSetWrite
  \/ MInitListen
  \/ MCallAcquire
  \/ MCallResume
  \/ MCallReturn
  \/ MCallRaised
  \/ MPush

SpecModel == MInit /\ [][MNext]_vars

\* -------------------------------------- NacosChatModel, cancelled tasks
\* A task blocked in acquire_read (a caller) or in acquire_write (the
\* listener in set_chat_model) is cancelled.
MCancelWait ==
  /\ UNCHANGED <<promptVars, extVars>>
  /\ \E t \in ModelTasks :
    /\ init_lock # t
    /\ cancel_acquire(t)
    /\ pending' = [pending EXCEPT ![t] = None]
    /\ hist' = [hist EXCEPT !.cancelled =
                  @ \cup {IF pc[t] \in {"ar_wait", "ar_woken"}
                            THEN "read" ELSE "write"}]
    /\ UNCHANGED <<behindWriter, guardVars, chat_model, backup_model,
                   model_provider, model_listeners, callee, made>>

\* The task running _async_init is cancelled at one of its awaits
\* (get_config_service, get_config, add_listener).
MCancelInit ==
  /\ UNCHANGED <<promptVars, extVars>>
  /\ \E t \in Callers :
    /\ pc[t] \in {"ai_service", "ai_fetch", "ai_listen"}
    /\ ensure_initialized_cancelled(t)
    /\ hist' = [hist EXCEPT !.initCause = "cancel",
                            !.cancelled = @ \cup {"init"}]
    /\ UNCHANGED <<readers, writers, behindWriter, chat_model, backup_model,
                   model_provider, model_listeners, pending, callee, made>>

CancelNext ==
  \/ MCall
  \/ MPoll
  \/ MInitService
  \/ MInitFetch
  \/ MSetAcquire
  \/ MSetResume
  \/ MSetWrite
  \/ MInitListen
  \/ MCallAcquire
  \/ MCallResume
  \/ MCallReturn
  \/ MCallRaised
  \/ MPush
  \/ MCancelWait
  \/ MCancelInit

SpecCancel == MInit /\ [][CancelNext]_vars

\* ------------------------------------------- the utilities, on their own
NameInit ==
  /\ readers = 0
  /\ writers = 0
  /\ behindWriter = FALSE
  /\ pc = [t \in {Initer} |-> "idle"]
  /\ ModelFresh
  /\ ListenerInit(FALSE, FALSE)
  /\ ToolsFresh
  /\ A2aFresh
  /\ UtilFresh

NameNext == ValidateCall

SpecName == NameInit /\ [][NameNext]_vars

ExtensionInit ==
  /\ readers = 0
  /\ writers = 0
  /\ behindWriter = FALSE
  /\ pc = [t \in {Initer} |-> "idle"]
  /\ ModelFresh
  /\ ListenerInit(FALSE, FALSE)
  /\ ToolsFresh
  /\ A2aFresh
  /\ vh = NoValidation
  /\ \E a \in ServerAddrs, n \in Namespaces : NacosExtension(a, n)
  /\ ExtraFresh

ExtensionNext ==
  \/ GetServerAddr
  \/ GetNamespace

SpecExtension == ExtensionInit /\ [][ExtensionNext]_vars

\* ----------------------------------- the block conversions, on their own
\* A block is converted to a part, and the part (when there is one) back.
ConvertBlock ==
  /\ \E b \in Blocks :
       LET part == convert_content_block_to_part(b)
       IN  bh' = [op |-> "block", block |-> b, part |-> part,
                  back |-> IF part.kind = "none" THEN NoBlock
                           ELSE convert_part_to_content_block(part)]
  /\ UNCHANGED <<vh, extension, xh, gh, rv>>
  /\ UtilFrame

\* A part received is converted to a block.
ConvertPart ==
  /\ \E part \in Parts :
       bh' = [op |-> "part", block |-> NoBlock, part |-> part,
              back |-> convert_part_to_content_block(part)]
  /\ UNCHANGED <<vh, extension, xh, gh, rv>>
  /\ UtilFrame

BlocksNext ==
  \/ ConvertBlock
  \/ ConvertPart

SpecBlocks == NameInit /\ [][BlocksNext]_vars

\* --------------------- NacosAgentListener._async_init, the groups it reads
\* A listener has been built for any name: __init__ stores agent_name as it
\* is given.
GroupInit ==
  /\ readers = 0
  /\ writers = 0
  /\ behindWriter = FALSE
  /\ pc = [t \in {Initer} |-> "idle"]
  /\ ModelFresh
  /\ ListenerInit(FALSE, FALSE)
  /\ ToolsFresh
  /\ A2aFresh
  /\ vh = NoValidation
  /\ NacosExtension("localhost:8848", "test-namespace")
  /\ bh = NoConversion
  /\ \E s \in Names : gh = NoLookups(s)
  /\ rv = NewResolver

\* NacosChatModel.__init__: self.agent_name = validate_agent_name(agent_name)
chat_model_agent_name(agent_name) == validate_agent_name(agent_name)

\* _async_init builds NacosChatModel(agent_name=self.agent_name), whose
\* __init__ validates the name, and awaits its initialize(), which looks
\* up model.json in the group made of the model's agent_name.  A
\* ValueError of the validation ends _async_init.
GModel ==
  /\ gh.step = "new"
  /\ LET v == chat_model_agent_name(gh.agent_name)
     IN  gh' = IF v.raised THEN [gh EXCEPT !.step = "raised"]
               ELSE [gh EXCEPT !.step = "model", !.model = group_name(v.value)]
  /\ UNCHANGED <<vh, extension, xh, bh, rv>>
  /\ UtilFrame

\* _init_listen_mcp_server looks up mcp-server.json.
GMcpServer ==
  /\ gh.step = "model"
  /\ gh' = [gh EXCEPT !.step = "mcp", !.mcp = group_name(gh.agent_name)]
  /\ UNCHANGED <<vh, extension, xh, bh, rv>>
  /\ UtilFrame

\* _init_listen_prompt looks up prompt.json.
GPrompt ==
  /\ gh.step = "mcp"
  /\ gh' = [gh EXCEPT !.step = "done", !.prompt = group_name(gh.agent_name)]
  /\ UNCHANGED <<vh, extension, xh, bh, rv>>
  /\ UtilFrame

GroupNext ==
  \/ GModel
  \/ GMcpServer
  \/ GPrompt

SpecGroup == GroupInit /\ [][GroupNext]_vars

\* ------------------------------------------ NacosA2ACardResolver, actions
CardInit ==
  /\ readers = 0
  /\ writers = 0
  /\ behindWriter = FALSE
  /\ pc = [c \in CardCallers |-> "idle"]
  /\ ModelFresh
  /\ ListenerInit(FALSE, FALSE)
  /\ ToolsFresh
  /\ A2aFresh
  /\ UtilFresh

CardFrame ==
  UNCHANGED <<lockVars, guardVars, modelVars, promptVars, toolVars, a2aVars,
              vh, extension, xh, bh, gh>>

\* An exception leaves _ensure_initialized of caller c: the finally clause
\* clears _initializing and get_agent_card raises.
resolver_raise(r, c) ==
  [r EXCEPT !.initializing = FALSE, !.failed = TRUE, !.result[c] = CardRaised]

\* _ensure_initialized: "if self._initializing:"
resolver_waits(flag) == flag

\* Task c calls get_agent_card, which runs _ensure_initialized up to its
\* first suspension: it returns when _initialized is set; it polls when
\* _initializing is set; else it takes _init_lock (free, as no task is
\* suspended while holding it), checks _initialized again, releases the
\* lock, sets _initializing and starts _async_init, suspended in
\* get_ai_service.
RGetAgentCard ==
  /\ \E c \in CardCallers :
       /\ pc[c] = "idle"
       /\ IF rv.initialized
            THEN /\ rv' = [rv EXCEPT !.result[c] = CardReturned(rv.agent_card)]
                 /\ pc' = [pc EXCEPT ![c] = "r_done"]
          ELSE IF resolver_waits(rv.initializing)
            THEN /\ pc' = [pc EXCEPT ![c] = "r_poll"]
                 /\ UNCHANGED rv
          ELSE IF rv.init_lock # NoTask
            THEN /\ pc' = [pc EXCEPT ![c] = "r_lock"]
                 /\ UNCHANGED rv
          ELSE /\ rv' = [rv EXCEPT !.initializing = TRUE, !.runs = @ + 1]
               /\ pc' = [pc EXCEPT ![c] = "r_service"]
  /\ CardFrame

\* get_ai_service returns to _async_init, which awaits get_agent_card of
\* the registry, or raises.
RInitService ==
  /\ \E c \in CardCallers, ok \in BOOLEAN :
       /\ pc[c] = "r_service"
       /\ IF ok
            THEN /\ pc' = [pc EXCEPT ![c] = "r_card"]
                 /\ UNCHANGED rv
            ELSE /\ pc' = [pc EXCEPT ![c] = "r_done"]
                 /\ rv' = resolver_raise(rv, c)
  /\ CardFrame

\* The registry's get_agent_card returns a card, which is stored and named
\* in a log line before subscribe_agent_card is awaited; or it returns
\* None, which is stored and makes the log line raise; or it raises.
RInitCard ==
  /\ \E c \in CardCallers, ok \in BOOLEAN, card \in ResolverCards \cup {NoCard} :
       /\ pc[c] = "r_card"
       /\ ~ok => card = NoCard
       /\ IF ok /\ card # NoCard
            THEN /\ pc' = [pc EXCEPT ![c] = "r_subscribe"]
                 /\ rv' = [rv EXCEPT !.agent_card = card]
            ELSE /\ pc' = [pc EXCEPT ![c] = "r_done"]
                 /\ rv' = resolver_raise(
                             IF ok THEN [rv EXCEPT !.agent_card = card] ELSE rv, c)
  /\ CardFrame

\* subscribe_agent_card returns: _async_init returns, _initialized is set,
\* the finally clause clears _initializing and get_agent_card returns
\* self._agent_card; or it raises.
RInitSubscribe ==
  /\ \E c \in CardCallers, ok \in BOOLEAN :
       /\ pc[c] = "r_subscribe"
       /\ pc' = [pc EXCEPT ![c] = "r_done"]
       /\ rv' = IF ok
                  THEN [rv EXCEPT !.subscribed = TRUE, !.initialized = TRUE,
                                  !.initializing = FALSE,
                                  !.result[c] = CardReturned(rv.agent_card)]
                  ELSE resolver_raise(rv, c)
  /\ CardFrame

\* A polling task wakes from asyncio.sleep and finds _initializing clear:
\* _ensure_initialized returns and get_agent_card returns self._agent_card.
RPoll ==
  /\ \E c \in CardCallers :
       /\ pc[c] = "r_poll"
       /\ ~rv.initializing
       /\ pc' = [pc EXCEPT ![c] = "r_done"]
       /\ rv' = [rv EXCEPT !.result[c] = CardReturned(rv.agent_card)]
  /\ CardFrame

\* The subscription delivers another card to agent_card_subscriber.
RCardPush ==
  /\ rv.subscribed
  /\ \E card \in ResolverCards \ {rv.agent_card} :
       rv' = [rv EXCEPT !.agent_card = card]
  /\ UNCHANGED pc
  /\ CardFrame

CardNext ==
  \/ RGetAgentCard
  \/ RInitService
  \/ RInitCard
  \/ RInitSubscribe
  \/ RPoll
  \/ RCardPush

SpecCard == CardInit /\ [][CardNext]_vars

\* ------------------------------------- NacosAgentListener, initialisation
\* The listener's _ensure_initialized is the guard of NacosChatModel, line
\* for line; its state is kept in the guard's variables.
\* The task that executes _async_init is the one holding _init_lock.
Runner == IF init_lock = BgTask THEN BgTask ELSE Initer

LFail(cause) ==
  /\ ensure_initialized_raise(Runner)
  /\ hist' = [hist EXCEPT !.initCause = cause]

\* mutant: the new prompt reaches self.prompt but not the attached agent
set_prompt_self_only(p) ==
  /\ prompt' = set_prompt_value(p, original.prompt)
  /\ agent' = agent

\* _set_prompt(p): self.prompt and, when an agent is attached, its _sys_prompt
set_prompt(p) ==
  LET v == set_prompt_value(p, original.prompt)
  IN  /\ prompt' = v
      /\ agent' = IF agent.attached THEN [agent EXCEPT !.sys_prompt = v] ELSE agent

\* A task calls initialize(), which awaits _ensure_initialized().
LCall ==
  /\ UNCHANGED extVars
  /\ (~initialized /\ ~initializing) => hist.initRuns < MaxListenerInits
  /\ ensure_initialized_enter(Initer, "idle")
  /\ IF pc'[Initer] = "ai_service"
       THEN /\ hist' = [hist EXCEPT !.initRuns = @ + 1, !.initCause = "none",
                                     !.initPath = "none"]
            /\ ph' = [NoFetch EXCEPT !.modelMissing = ph.modelMissing]
       ELSE UNCHANGED <<hist, ph>>
  /\ UNCHANGED <<readers, writers, behindWriter, chat_model, backup_model,
                 model_provider, model_listeners, pending, callee, made,
                 listen_chat_model, listen_mcp_server, mcp_config, mcp_server_clients, l_toolkit, lh, l_chat_model, l_formatter, user_prompt_ref,
                 template, prompt, agent, original, cfg_listeners,
                 content_listeners, hloc>>

\* initialize() returns or raises to its caller.
LReturn ==
  /\ UNCHANGED extVars
  /\ pc[Initer] \in {"ei_ret", "ei_raised"}
  /\ pc' = [pc EXCEPT ![Initer] = "idle"]
  /\ UNCHANGED <<readers, writers, behindWriter, guardVars, modelVars, promptVars>>

\* _async_init after the chat model part: "if self._listen_mcp_server:
\* self.toolkit = DynamicToolkit(); await self._init_listen_mcp_server()",
\* else _init_listen_prompt.  The position reached and self.toolkit then.
after_listen_chat_model == IF listen_mcp_server THEN "li_mcp" ELSE "lp_fetch"
toolkit_after_listen_chat_model ==
  IF listen_mcp_server THEN DynamicToolkit ELSE l_toolkit

\* _async_init: get_config_service() and get_ai_service() return or raise.
LInitService ==
  /\ UNCHANGED extVars
  /\ \E ok \in BOOLEAN :
    /\ pc[Runner] = "ai_service"
    /\ IF ok
         THEN /\ pc' = [pc EXCEPT ![Runner] =
                          IF listen_chat_model THEN "li_model"
                          ELSE after_listen_chat_model]
              /\ l_toolkit' = IF listen_chat_model THEN l_toolkit
                              ELSE toolkit_after_listen_chat_model
              /\ UNCHANGED <<guardVars, hist>>
         ELSE /\ LFail("service")
              /\ UNCHANGED l_toolkit
    /\ UNCHANGED <<readers, writers, behindWriter, chat_model, backup_model,
                   model_provider, model_listeners, pending, callee, made,
                   listen_chat_model, listen_mcp_server, mcp_config, mcp_server_clients, lh, l_chat_model,
                   l_formatter, user_prompt_ref, template, prompt, agent,
                   original, cfg_listeners, content_listeners, hloc, ph>>

\* NacosChatModel._async_init: get_config(model.json) returned a content
\* ("if user_model_config is None or len(user_model_config) == 0: raise")
model_spec_found(r) == r.kind \notin {"raise", "absent", "empty"}

\* _async_init: self.chat_model = NacosChatModel(agent_name, stream=True), a
\* new object without backup model, and "await self.chat_model.initialize()"
\* (no other task can reach the new object before it returns); then the
\* formatter.  r is what get_config(model.json) returns; io is "ok", or the
\* call that raises: get_config_service ("service") or add_listener ("listen").
LInitModel ==
  /\ UNCHANGED extVars
  /\ \E r \in FetchResults, io \in {"ok", "service", "listen"} :
    /\ pc[Runner] = "li_model"
    /\ LET found == io # "service" /\ model_spec_found(r)
           gen == generate_chat_model(ProviderOf(r), r.ctor, 1)
           fb == init_fallback(gen, None)
           isSet == found /\ Parsed(r) /\ ~fb.raises
           ok == isSet /\ io = "ok"
       IN  /\ chat_model' = IF isSet THEN fb.model ELSE None
           /\ backup_model' = None
           /\ model_provider' = IF found /\ Parsed(r) THEN ProviderOf(r) ELSE "openai"
           /\ made' = IF isSet THEN 1 ELSE 0
           /\ model_listeners' = IF ok THEN 1 ELSE 0
           /\ l_chat_model' = IF ok THEN "ready" ELSE "created"
           /\ l_formatter' = (ok \/ l_formatter)
           /\ ph' = [ph EXCEPT
                      !.modelFetch = IF io = "service" THEN "none" ELSE r.kind,
                      !.modelMissing = @ \/ (io # "service" /\ ~model_spec_found(r)
                                               /\ r.kind # "raise")]
           /\ IF ok
                THEN /\ pc' = [pc EXCEPT ![Runner] = after_listen_chat_model]
                     /\ l_toolkit' = toolkit_after_listen_chat_model
                     /\ UNCHANGED <<guardVars, hist>>
                ELSE /\ LFail("model")
                     /\ UNCHANGED l_toolkit
    /\ UNCHANGED <<readers, writers, behindWriter, pending, callee,
                   listen_chat_model, listen_mcp_server, mcp_config, mcp_server_clients, lh, user_prompt_ref,
                   template, prompt, agent, original, cfg_listeners,
                   content_listeners, hloc>>

\* _init_listen_mcp_server: get_config(mcp-server.json), json.loads, and for
\* every server a client's initialize() and register_mcp_client; all of them
\* return, or one raises after k servers have been registered (get_config
\* and json.loads before the first, initialize() or register_mcp_client of
\* the next server after it).
LInitMcp ==
  /\ UNCHANGED extVars
  /\ \E ok \in BOOLEAN, k \in 0..Len(mcp_config) :
    /\ pc[Runner] = "li_mcp"
    /\ ok => k = Len(mcp_config)
    /\ ~ok => (k = 0 \/ k < Len(mcp_config))
    /\ l_toolkit' = [l_toolkit EXCEPT
                       !.tools = register_clients(@, mcp_config, k)]
    /\ mcp_server_clients' =
         mcp_server_clients \cup {mcp_config[i] : i \in 1..k}
    /\ IF ok
         THEN /\ pc' = [pc EXCEPT ![Runner] = "lp_fetch"]
              /\ UNCHANGED <<guardVars, hist>>
         ELSE LFail("mcp")
    /\ UNCHANGED <<readers, writers, behindWriter, modelVars_but_hist,
                   listen_chat_model, listen_mcp_server, mcp_config, lh, l_chat_model,
                   l_formatter, user_prompt_ref, template, prompt, agent,
                   original, cfg_listeners, content_listeners, hloc, ph>>

\* mutant: an absent or empty prompt.json fails the initialisation, as an
\* absent model.json does
init_prompt_branch_strict(c) ==
  IF c.kind = "raise" THEN "raise"
  ELSE IF c.kind \in {"absent", "empty"} THEN "invalid"
  ELSE IF c.kind = "unparsable" THEN "invalid"
  ELSE IF c.ref # NoKey THEN "ref"
  ELSE IF c.prompt # NoPrompt THEN "inline"
  ELSE "invalid"

\* _init_listen_prompt, the branch taken on the result of
\* get_config(prompt.json): absent or empty only registers the listener
\* ("wait"); JSON with "promptRef" ("ref"); else JSON with "prompt"
\* ("inline"); anything else raises.
init_prompt_branch(c) ==
  IF c.kind = "raise" THEN "raise"
  ELSE IF c.kind \in {"absent", "empty"} THEN "wait"
  ELSE IF c.kind = "unparsable" THEN "invalid"
  ELSE IF c.ref # NoKey THEN "ref"
  ELSE IF c.prompt # NoPrompt THEN "inline"
  ELSE "invalid"

\* _init_listen_prompt from the return of get_config(prompt.json) to its
\* next await.
LPromptFetch ==
  /\ UNCHANGED extVars
  /\ \E c \in CfgResults :
    /\ pc[Runner] = "lp_fetch"
    /\ ph' = [ph EXCEPT !.cfgFetch = c.kind]
    /\ LET b == init_prompt_branch(c)
       IN  CASE b = "wait" ->
                  /\ pc' = [pc EXCEPT ![Runner] = "lp_add_cfg"]
                  /\ UNCHANGED <<guardVars, hist, user_prompt_ref, template,
                                 prompt, agent>>
             [] b = "ref" ->
                  /\ user_prompt_ref' = c.ref
                  /\ pc' = [pc EXCEPT ![Runner] = "lp_fetch_ref"]
                  /\ UNCHANGED <<guardVars, hist, template, prompt, agent>>
             [] b = "inline" ->
                  /\ user_prompt_ref' = ""
                  /\ template' = c.prompt
                  /\ set_prompt(c.prompt)
                  /\ pc' = [pc EXCEPT ![Runner] = "lp_add_cfg"]
                  /\ UNCHANGED <<guardVars, hist>>
             [] OTHER ->
                  /\ LFail(IF b = "raise" THEN "prompt_fetch" ELSE "prompt_invalid")
                  /\ UNCHANGED <<user_prompt_ref, template, prompt, agent>>
    /\ UNCHANGED <<readers, writers, behindWriter, modelVars_but_hist,
                   listen_chat_model, listen_mcp_server, mcp_config, mcp_server_clients, l_toolkit, lh, l_chat_model, l_formatter, original,
                   cfg_listeners, content_listeners, hloc>>

\* _init_listen_prompt from the return of get_config(<promptRef>) to the
\* call of add_listener for that key.
LPromptFetchRef ==
  /\ UNCHANGED extVars
  /\ \E k \in ContentResults :
    /\ pc[Runner] = "lp_fetch_ref"
    /\ IF k.kind = "ok"
         THEN /\ template' = k.template
              /\ set_prompt(k.template)
              /\ pc' = [pc EXCEPT ![Runner] = "lp_add_ref"]
              /\ UNCHANGED <<guardVars, hist>>
         ELSE /\ LFail(IF k.kind = "raise" THEN "prompt_fetch"
                       ELSE IF k.kind \in {"absent", "empty"} THEN "ref_missing"
                       ELSE "prompt_invalid")
              /\ UNCHANGED <<template, prompt, agent>>
    /\ UNCHANGED <<readers, writers, behindWriter, modelVars_but_hist,
                   listen_chat_model, listen_mcp_server, mcp_config, mcp_server_clients, l_toolkit, lh, l_chat_model, l_formatter, user_prompt_ref,
                   original, cfg_listeners, content_listeners, hloc, ph>>

\* add_listener(<promptRef>, user_prompt_listener) returns or raises.
LPromptAddRef ==
  /\ UNCHANGED extVars
  /\ \E ok \in BOOLEAN :
    /\ pc[Runner] = "lp_add_ref"
    /\ IF ok
         THEN /\ content_listeners[user_prompt_ref] < MaxListeners
              /\ content_listeners' =
                   [content_listeners EXCEPT ![user_prompt_ref] = @ + 1]
              /\ pc' = [pc EXCEPT ![Runner] = "lp_add_cfg"]
              /\ UNCHANGED <<guardVars, hist>>
         ELSE /\ LFail("listen")
              /\ UNCHANGED content_listeners
    /\ UNCHANGED <<readers, writers, behindWriter, modelVars_but_hist,
                   listen_chat_model, listen_mcp_server, mcp_config, mcp_server_clients, l_toolkit, lh, l_chat_model, l_formatter, user_prompt_ref,
                   template, prompt, agent, original, cfg_listeners, hloc, ph>>

\* add_listener(prompt.json, user_prompt_config_listener) returns or raises;
\* it is the last statement of every branch, and of _async_init.
LPromptAddCfg ==
  /\ UNCHANGED extVars
  /\ \E ok \in BOOLEAN :
    /\ pc[Runner] = "lp_add_cfg"
    /\ IF ok
         THEN /\ cfg_listeners' = cfg_listeners + 1
              /\ ensure_initialized_done(Runner)
              /\ UNCHANGED hist
         ELSE /\ LFail("listen")
              /\ UNCHANGED cfg_listeners
    /\ UNCHANGED <<readers, writers, behindWriter, modelVars_but_hist,
                   listen_chat_model, listen_mcp_server, mcp_config, mcp_server_clients, l_toolkit, lh, l_chat_model, l_formatter, user_prompt_ref,
                   template, prompt, agent, original, content_listeners, hloc, ph>>

\* ------------------------------- NacosAgentListener, pushes and the agent
\* remove_listener(key, user_prompt_listener): the registry drops one
\* registration of the key, if it has any.
remove_listener(key) ==
  [content_listeners EXCEPT ![key] = IF @ > 0 THEN @ - 1 ELSE 0]

\* user_prompt_config_listener is suspended at one of its awaits.
HSuspended ==
  pc[CfgTask] \in {"h_fetch", "h_remove", "h_add", "h_remove_only"}

\* user_prompt_config_listener raises: the exception ends the callback.
HRaise ==
  /\ hloc' = NoRun
  /\ pc' = [pc EXCEPT ![CfgTask] = "idle"]

\* user_prompt_config_listener, "promptRef" not in the payload, after the
\* old key's listener is removed: user_prompt_ref = "", the template becomes
\* the payload's "prompt" when it has one, then _set_prompt(self.template).
config_listener_no_ref(d) ==
  /\ user_prompt_ref' = ""
  /\ template' = IF d.prompt # NoPrompt THEN d.prompt ELSE template
  /\ set_prompt(template')
  /\ pc' = [pc EXCEPT ![CfgTask] = "h_done"]

\* The registry delivers a content of prompt.json to
\* user_prompt_config_listener, which runs to its first await or to its end.
\* One delivery is handled at a time.
HDeliver ==
  /\ UNCHANGED extVars
  /\ \E d \in PromptConfigs :
    /\ cfg_listeners > 0
    /\ pc[CfgTask] = "idle"
    /\ hist.pushes < MaxPushes
    /\ hist' = [hist EXCEPT !.pushes = @ + 1]
    /\ LET run == [NoRun EXCEPT !.old = user_prompt_ref, !.cfg = d]
       IN  CASE d.kind = "unparsable" ->
                  /\ hloc' = NoRun
                  /\ UNCHANGED <<pc, user_prompt_ref, template, prompt, agent>>
             [] d.kind = "dict" /\ d.ref # NoKey /\ d.ref = user_prompt_ref ->
                  /\ hloc' = [run EXCEPT !.result = "done"]
                  /\ set_prompt(template)
                  /\ pc' = [pc EXCEPT ![CfgTask] = "h_done"]
                  /\ UNCHANGED <<user_prompt_ref, template>>
             [] d.kind = "dict" /\ d.ref # NoKey /\ d.ref # user_prompt_ref ->
                  /\ hloc' = [run EXCEPT !.result = "running"]
                  /\ user_prompt_ref' = d.ref
                  /\ pc' = [pc EXCEPT ![CfgTask] = "h_fetch"]
                  /\ UNCHANGED <<template, prompt, agent>>
             [] d.kind = "dict" /\ d.ref = NoKey /\ user_prompt_ref # "" ->
                  /\ hloc' = [run EXCEPT !.result = "running"]
                  /\ pc' = [pc EXCEPT ![CfgTask] = "h_remove_only"]
                  /\ UNCHANGED <<user_prompt_ref, template, prompt, agent>>
             [] d.kind = "dict" /\ d.ref = NoKey /\ user_prompt_ref = "" ->
                  /\ hloc' = [run EXCEPT !.result = "done"]
                  /\ config_listener_no_ref(d)
    /\ UNCHANGED <<lockVars, guardVars, modelVars_but_hist, listen_chat_model, listen_mcp_server, mcp_config, mcp_server_clients, l_toolkit, lh,
                   l_chat_model, l_formatter, original, cfg_listeners,
                   content_listeners, ph>>

\* get_config(<new promptRef>) returns or raises; json.loads and
\* ["template"] raise on a missing, empty or malformed content.
HFetch ==
  /\ UNCHANGED extVars
  /\ \E k \in ContentResults :
    /\ pc[CfgTask] = "h_fetch"
    /\ IF k.kind = "ok"
         THEN /\ template' = k.template
              /\ hloc' = [hloc EXCEPT !.fetched = k.template]
              /\ pc' = [pc EXCEPT ![CfgTask] =
                          IF hloc.old # "" THEN "h_remove" ELSE "h_add"]
         ELSE /\ HRaise
              /\ UNCHANGED template
    /\ UNCHANGED <<lockVars, guardVars, modelVars, listen_chat_model, listen_mcp_server, mcp_config, mcp_server_clients, l_toolkit, lh,
                   l_chat_model, l_formatter, user_prompt_ref, prompt, agent,
                   original, cfg_listeners, content_listeners, ph>>

\* remove_listener(_old_prompt_ref, user_prompt_listener) returns or raises.
HRemove ==
  /\ UNCHANGED extVars
  /\ \E ok \in BOOLEAN :
    /\ pc[CfgTask] = "h_remove"
    /\ IF ok
         THEN /\ content_listeners' = remove_listener(hloc.old)
              /\ hloc' = [hloc EXCEPT !.removed = Append(@, hloc.old)]
              /\ pc' = [pc EXCEPT ![CfgTask] = "h_add"]
         ELSE /\ HRaise
              /\ UNCHANGED content_listeners
    /\ UNCHANGED <<lockVars, guardVars, modelVars, listen_chat_model, listen_mcp_server, mcp_config, mcp_server_clients, l_toolkit, lh,
                   l_chat_model, l_formatter, user_prompt_ref, template, prompt,
                   agent, original, cfg_listeners, ph>>

\* add_listener(self.user_prompt_ref, user_prompt_listener) returns or
\* raises; when it returns the handler ends with _set_prompt(self.template).
HAdd ==
  /\ UNCHANGED extVars
  /\ \E ok \in BOOLEAN :
    /\ pc[CfgTask] = "h_add"
    /\ IF ok
         THEN /\ content_listeners[user_prompt_ref] < MaxListeners
              /\ content_listeners' =
                   [content_listeners EXCEPT ![user_prompt_ref] = @ + 1]
              /\ hloc' = [hloc EXCEPT !.added = Append(@, user_prompt_ref),
                                      !.result = "done"]
              /\ set_prompt(template)
              /\ pc' = [pc EXCEPT ![CfgTask] = "h_done"]
         ELSE /\ HRaise
              /\ UNCHANGED <<content_listeners, prompt, agent>>
    /\ UNCHANGED <<lockVars, guardVars, modelVars, listen_chat_model, listen_mcp_server, mcp_config, mcp_server_clients, l_toolkit, lh,
                   l_chat_model, l_formatter, user_prompt_ref, template,
                   original, cfg_listeners, ph>>

\* The payload has no "promptRef" and a key was referenced:
\* remove_listener(_old_prompt_ref) returns or raises, then the handler ends.
HRemoveOnly ==
  /\ UNCHANGED extVars
  /\ \E ok \in BOOLEAN :
    /\ pc[CfgTask] = "h_remove_only"
    /\ IF ok
         THEN /\ content_listeners' = remove_listener(hloc.old)
              /\ hloc' = [hloc EXCEPT !.removed = Append(@, hloc.old),
                                      !.result = "done"]
              /\ config_listener_no_ref(hloc.cfg)
         ELSE /\ HRaise
              /\ UNCHANGED <<content_listeners, user_prompt_ref, template,
                             prompt, agent>>
    /\ UNCHANGED <<lockVars, guardVars, modelVars, listen_chat_model, listen_mcp_server, mcp_config, mcp_server_clients, l_toolkit, lh,
                   l_chat_model, l_formatter, original, cfg_listeners, ph>>

\* user_prompt_config_listener returns to the registry client that called it.
HReturn ==
  /\ UNCHANGED extVars
  /\ pc[CfgTask] = "h_done"
  /\ pc' = [pc EXCEPT ![CfgTask] = "idle"]
  /\ hloc' = NoRun
  /\ UNCHANGED <<lockVars, guardVars, modelVars, listen_chat_model, listen_mcp_server, mcp_config, mcp_server_clients, l_toolkit, lh,
                 l_chat_model, l_formatter, user_prompt_ref, template, prompt,
                 agent, original, cfg_listeners, content_listeners, ph>>

\* The registry delivers a content of a prompt key to user_prompt_listener,
\* which has no await: it raises on a malformed content and otherwise sets
\* the template and the prompt.  It can run while the config handler is
\* suspended.
ContentPush ==
  /\ UNCHANGED extVars
  /\ \E k \in Keys, c \in PromptContents :
    /\ content_listeners[k] > 0
    /\ hloc' = [hloc EXCEPT !.interfered = @ \/ HSuspended]
    /\ IF c.kind = "ok"
         THEN /\ template' = c.template
              /\ set_prompt(c.template)
         ELSE UNCHANGED <<template, prompt, agent>>
    /\ UNCHANGED <<lockVars, pc, guardVars, modelVars, listen_chat_model, listen_mcp_server, mcp_config, mcp_server_clients, l_toolkit, lh,
                   l_chat_model, l_formatter, user_prompt_ref, original,
                   cfg_listeners, content_listeners, ph>>

\* mutant: a listener whose initialisation is running counts as initialized
is_initialized_while_running == initialized \/ initializing

\* is_initialized(): "return self._initialized"
is_initialized == initialized

\* agent.toolkit.tools of an agent whose toolkit is not None
agent_tools(a) == IF a.toolkit = "own" THEN OwnTools ELSE l_toolkit.tools

\* attach_agent(a) past its check: the agent's four fields are recorded, then
\* the prompt, (with listen_mcp_server, for an agent that has a toolkit) the
\* listener's toolkit extended by the agent's tools, and (with
\* listen_chat_model) the NacosChatModel, backed by the agent's own model,
\* and the formatter are put into the agent.
attach_agent(a) ==
  LET merge == listen_mcp_server /\ a.toolkit # "none"
  IN  /\ original' = [prompt |-> a.sys_prompt, model |-> a.model,
                      formatter |-> a.formatter, toolkit |-> a.toolkit]
      /\ agent' = [attached |-> TRUE, sys_prompt |-> prompt,
                   model |-> IF listen_chat_model THEN "nacos" ELSE a.model,
                   formatter |-> IF listen_chat_model THEN "nacos" ELSE a.formatter,
                   toolkit |-> IF merge THEN "nacos" ELSE a.toolkit]
      /\ l_toolkit' = IF merge
                        THEN [l_toolkit EXCEPT
                                !.tools = dict_update(@, agent_tools(a))]
                        ELSE l_toolkit
      /\ backup_model' = IF listen_chat_model THEN Backup ELSE backup_model

\* mutant: detach_agent leaves the agent the system prompt it has
detach_agent_keep_prompt ==
  /\ agent' = IF agent.attached
                THEN [attached |-> FALSE, sys_prompt |-> agent.sys_prompt,
                      model |-> original.model,
                      formatter |-> original.formatter,
                      toolkit |-> original.toolkit]
                ELSE agent
  /\ original' = NoOriginal

\* detach_agent(): self.agent = None; the agent, if there was one, gets the
\* four recorded values back; the recorded values become None.
detach_agent ==
  /\ agent' = IF agent.attached
                THEN [attached |-> FALSE, sys_prompt |-> original.prompt,
                      model |-> original.model,
                      formatter |-> original.formatter,
                      toolkit |-> original.toolkit]
                ELSE agent
  /\ original' = NoOriginal

\* What attach_agent, detach_agent and the getters leave alone.
CallFrame ==
  UNCHANGED <<lockVars, pc, guardVars, chat_model, model_provider,
              model_listeners, pending, callee, made, hist, listen_chat_model,
              listen_mcp_server, mcp_config, mcp_server_clients, l_chat_model, l_formatter, user_prompt_ref,
              template, prompt, cfg_listeners, content_listeners, hloc, ph,
              extVars>>

\* attach_agent(UserAgent) on an initialized listener (on any other it
\* raises before its first assignment).
Attach ==
  /\ is_initialized
  /\ attach_agent(UserAgent)
  /\ UNCHANGED lh
  /\ CallFrame

\* detach_agent() while an agent is attached (without one it assigns None
\* to fields that are None).
Detach ==
  /\ agent.attached
  /\ detach_agent
  /\ UNCHANGED <<backup_model, l_toolkit, lh>>
  /\ CallFrame

PInit ==
  /\ readers = 0
  /\ writers = 0
  /\ behindWriter = FALSE
  /\ pc = [t \in {Initer, CfgTask} |-> "idle"]
  /\ ModelFresh
  /\ \E lcm \in BOOLEAN : ListenerInit(lcm, FALSE)
  /\ ToolsFresh
  /\ A2aFresh
  /\ UtilFresh

PNext ==
  \/ LCall
  \/ LReturn
  \/ LInitService
  \/ LInitModel
  \/ LPromptFetch
  \/ LPromptFetchRef
  \/ LPromptAddRef
  \/ LPromptAddCfg
  \/ HDeliver
  \/ HFetch
  \/ HRemove
  \/ HAdd
  \/ HRemoveOnly
  \/ HReturn
  \/ ContentPush
  \/ Attach
  \/ Detach

SpecPrompt == PInit /\ [][PNext]_vars

\* ---------------------- NacosAgentListener, calls made by the application
\* The application calls attach_agent, detach_agent and the getters at any
\* time, one call after the other; lh keeps what the last call did until
\* CallReturn.
Getters == {"get_model_and_formatter", "get_toolkit", "get_prompt"}

\* attach_agent(a)
CallAttach ==
  /\ lh.call = "none"
  /\ \E a \in Agents :
       IF is_initialized
         THEN /\ attach_agent(a)
              /\ lh' = [lh EXCEPT !.call = "attach", !.ready = initialized,
                                  !.raised = FALSE, !.given = a,
                                  !.first = prompt]
         ELSE /\ lh' = [lh EXCEPT !.call = "attach", !.ready = initialized,
                                  !.raised = TRUE]
              /\ UNCHANGED <<agent, original, l_toolkit, backup_model>>
  /\ CallFrame

\* detach_agent()
CallDetach ==
  /\ lh.call = "none"
  /\ detach_agent
  /\ lh' = [lh EXCEPT !.call = "detach", !.ready = initialized,
                      !.raised = FALSE, !.before = agent]
  /\ UNCHANGED <<backup_model, l_toolkit>>
  /\ CallFrame

\* get_model_and_formatter(), get_toolkit(), get_prompt(): each returns
\* fields of the listener, or raises when the listener is not initialized.
CallGet ==
  /\ lh.call = "none"
  /\ \E g \in Getters :
       lh' = [lh EXCEPT !.call = g, !.ready = initialized,
                       !.raised = ~is_initialized]
  /\ UNCHANGED <<agent, original, l_toolkit, backup_model>>
  /\ CallFrame

\* The application goes on after a call; what the last attach_agent was
\* given is forgotten once detach_agent has returned.
CallReturn ==
  /\ lh.call # "none"
  /\ lh' = IF lh.call = "detach" THEN NoCall
           ELSE [lh EXCEPT !.call = "none", !.ready = FALSE, !.raised = FALSE]
  /\ UNCHANGED <<agent, original, l_toolkit, backup_model>>
  /\ CallFrame

AttachInit ==
  /\ readers = 0
  /\ writers = 0
  /\ behindWriter = FALSE
  /\ pc = [t \in {Initer, CfgTask} |-> "idle"]
  /\ ModelFresh
  /\ \E lcm \in BOOLEAN, lms \in BOOLEAN : ListenerInit(lcm, lms)
  /\ ToolsFresh
  /\ A2aFresh
  /\ UtilFresh

AttachNext ==
  \/ LCall
  \/ LReturn
  \/ LInitService
  \/ LInitModel
  \/ LInitMcp
  \/ LPromptFetch
  \/ LPromptFetchRef
  \/ LPromptAddRef
  \/ LPromptAddCfg
  \/ ContentPush
  \/ CallAttach
  \/ CallDetach
  \/ CallGet
  \/ CallReturn

SpecAttach == AttachInit /\ [][AttachNext]_vars

\* ------------------- NacosAgentListener, background pre-initialization
\* _try_start_background_init, called last by __init__: with a running
\* event loop it creates a task for _ensure_initialized(), which has not
\* run when __init__ returns; without one get_running_loop raises
\* RuntimeError, which is caught, and there is no task.  The position of
\* BgTask after __init__.
try_start_background_init(loop) == IF loop THEN "bg_new" ELSE "no_task"

\* What the steps of _ensure_initialized outside _async_init leave alone.
GuardFrame ==
  UNCHANGED <<readers, writers, behindWriter, chat_model, backup_model,
              model_provider, model_listeners, pending, callee, made,
              promptVars, extVars>>

\* The event loop runs the background task for the first time:
\* _ensure_initialized up to its first suspension, as in LCall.
BgStart ==
  /\ (~initialized /\ ~initializing) => hist.initRuns < MaxListenerInits
  /\ ensure_initialized_enter(BgTask, "bg_new")
  /\ IF pc'[BgTask] = "ai_service"
       THEN /\ hist' = [hist EXCEPT !.initRuns = @ + 1, !.initCause = "none",
                                     !.initPath = "none"]
            /\ ph' = [NoFetch EXCEPT !.modelMissing = ph.modelMissing]
       ELSE UNCHANGED <<hist, ph>>
  /\ UNCHANGED <<readers, writers, behindWriter, chat_model, backup_model,
                 model_provider, model_listeners, pending, callee, made,
                 listen_chat_model, listen_mcp_server, mcp_config,
                 mcp_server_clients, l_toolkit, lh, l_chat_model, l_formatter,
                 user_prompt_ref, template, prompt, agent, original,
                 cfg_listeners, content_listeners, hloc, extVars>>

\* A task that found _initializing set wakes up from its sleep.
LPoll ==
  /\ \E t \in {Initer, BgTask} : ensure_initialized_poll(t)
  /\ UNCHANGED hist
  /\ GuardFrame

\* The background task ends: its result or its exception is kept in the
\* task object (self._init_task), which nothing awaits.
BgEnd ==
  /\ pc[BgTask] \in {"ei_ret", "ei_raised"}
  /\ pc' = [pc EXCEPT ![BgTask] =
               IF pc[BgTask] = "ei_raised" THEN "bg_failed" ELSE "bg_done"]
  /\ UNCHANGED <<guardVars, hist>>
  /\ GuardFrame

BgInit ==
  /\ readers = 0
  /\ writers = 0
  /\ behindWriter = FALSE
  /\ \E loop \in BOOLEAN :
       pc = [t \in {Initer, BgTask} |->
              IF t = BgTask THEN try_start_background_init(loop) ELSE "idle"]
  /\ ModelFresh
  /\ \E lcm \in BOOLEAN, lms \in BOOLEAN : ListenerInit(lcm, lms)
  /\ ToolsFresh
  /\ A2aFresh
  /\ UtilFresh

BgNext ==
  \/ BgStart
  \/ BgEnd
  \/ LPoll
  \/ LCall
  \/ LReturn
  \/ LInitService
  \/ LInitModel
  \/ LInitMcp
  \/ LPromptFetch
  \/ LPromptFetchRef
  \/ LPromptAddRef
  \/ LPromptAddCfg

SpecBg == BgInit /\ [][BgNext]_vars

\* ------------------------- NacosAgentListener, changes of mcp-server.json
\* The registry publishes a changed mcp-server.json.  The listener has
\* registered no listener on that key (_init_listen_mcp_server only calls
\* get_config; every add_listener of the class is on a prompt key), so the
\* push is delivered to nobody and nothing of the listener runs.
McpPush ==
  /\ \E l \in McpServerLists \ {mcp_config} : mcp_config' = l
  /\ UNCHANGED <<lockVars, pc, guardVars, modelVars, listen_chat_model,
                 listen_mcp_server, mcp_server_clients, l_toolkit, lh,
                 l_chat_model, l_formatter, user_prompt_ref, template, prompt,
                 agent, original, cfg_listeners, content_listeners, hloc, ph,
                 extVars>>

\* The steps of the listener's own tasks.
ListenerSteps ==
  \/ LReturn
  \/ LInitService
  \/ LInitModel
  \/ LInitMcp
  \/ LPromptFetch
  \/ LPromptFetchRef
  \/ LPromptAddRef
  \/ LPromptAddCfg

McpNext ==
  \/ LCall
  \/ LReturn
  \/ LInitService
  \/ LInitModel
  \/ LInitMcp
  \/ LPromptFetch
  \/ LPromptFetchRef
  \/ LPromptAddRef
  \/ LPromptAddCfg
  \/ McpPush

\* A task of the event loop that can run is run.
SpecMcp == AttachInit /\ [][McpNext]_vars /\ WF_vars(ListenerSteps)

\* ------------------------------------------- NacosMCPClientBase, actions
\* The frame of the tool client's actions.
NotifyFrame ==
  UNCHANGED <<lockVars, chat_model, backup_model, model_provider,
              model_listeners, pending, callee, made, promptVars, a2aVars,
              utilVars>>

\* The frame of the actions that are not part of _notify_toolkits.
ToolFrame == NotifyFrame /\ UNCHANGED notifyVars

\* The caller's operation ends: the outcome is recorded.
tool_op_end(result) ==
  /\ pc' = [pc EXCEPT ![ToolCaller] = "t_done"]
  /\ th' = [th EXCEPT !.result = result]

\* A task calls initialize(), list_tools() or get_callable_function(name);
\* each starts with "await self._ensure_initialized()".
TCall ==
  \E op \in {"init", "list", "get"}, name \in ToolNames :
    /\ (~initialized /\ ~initializing) => hist.initRuns < MaxInitRuns
    /\ ensure_initialized_enter(ToolCaller, "idle")
    /\ hist' = IF pc'[ToolCaller] = "ai_service"
                 THEN [hist EXCEPT !.initRuns = @ + 1, !.initCause = "none"]
                 ELSE hist
    /\ th' = [th EXCEPT !.op = op, !.name = name, !.fetched = FALSE,
                        !.advertised = NoTools, !.listed = {},
                        !.result = "running"]
    /\ UNCHANGED <<tools, tools_meta, mcp_server_detail_info, toolkit_refs,
                   notify_tasks>>
    /\ ToolFrame

\* The initialisation fails with the exception of one of its calls.
TFail(cause) ==
  /\ ensure_initialized_raise(ToolCaller)
  /\ hist' = [hist EXCEPT !.initCause = cause]

\* _async_init: get_ai_service() returns or raises.
TInitService ==
  \E ok \in BOOLEAN :
    /\ pc[ToolCaller] = "ai_service"
    /\ IF ok
         THEN /\ pc' = [pc EXCEPT ![ToolCaller] = "t_get_server"]
              /\ UNCHANGED <<guardVars, hist>>
         ELSE TFail("service")
    /\ UNCHANGED toolVars
    /\ ToolFrame

\* _async_init: get_mcp_server() raises, or returns None, a detail info with
\* an unsupported frontProtocol, or a supported one; the result is assigned
\* before it is validated.
TInitGetServer ==
  \E kind \in {"raise", "none", "unsupported", "ok"}, d \in DetailInfos :
    /\ pc[ToolCaller] = "t_get_server"
    /\ kind \in {"raise", "none"} => d = NoDetail
    /\ mcp_server_detail_info' =
         IF kind = "raise" THEN mcp_server_detail_info ELSE d
    /\ IF kind = "ok"
         THEN /\ pc' = [pc EXCEPT ![ToolCaller] = "t_subscribe"]
              /\ UNCHANGED <<guardVars, hist>>
         ELSE TFail(IF kind = "raise" THEN "fetch" ELSE "invalid")
    /\ UNCHANGED <<tools, tools_meta, toolkit_refs, notify_tasks, th>>
    /\ ToolFrame

\* _async_init: subscribe_mcp_server(callback) returns or raises; it is the
\* last statement.
TInitSubscribe ==
  \E ok \in BOOLEAN :
    /\ pc[ToolCaller] = "t_subscribe"
    /\ IF ok
         THEN /\ ensure_initialized_done(ToolCaller)
              /\ UNCHANGED hist
         ELSE TFail("subscribe")
    /\ UNCHANGED toolVars
    /\ ToolFrame

\* get_callable_function, steps 3 and 4: the outcome of the search in _tools.
get_callable_result(tl, meta, name) ==
  IF find_tool(tl, meta, name) THEN "found" ELSE "not_found"

\* _ensure_initialized has returned or raised: initialize() ends; list_tools
\* awaits _list_tools_impl; get_callable_function calls list_tools when
\* _tools is empty and searches _tools otherwise.
TProceed ==
  /\ pc[ToolCaller] \in {"ei_ret", "ei_raised"}
  /\ IF pc[ToolCaller] = "ei_raised" THEN tool_op_end("raised")
     ELSE IF th.op = "init" THEN tool_op_end("ok")
     ELSE IF th.op = "list" \/ tools = NoTools
       THEN /\ pc' = [pc EXCEPT ![ToolCaller] = "t_list"]
            /\ UNCHANGED th
     ELSE tool_op_end(get_callable_result(tools, tools_meta, th.name))
  /\ UNCHANGED <<guardVars, hist, tools, tools_meta, mcp_server_detail_info,
                 toolkit_refs, notify_tasks>>
  /\ ToolFrame

\* list_tools from the return of _list_tools_impl: cache the tools, update
\* them from the current detail info, return the enabled ones; then, in
\* get_callable_function, the search.
TListFetch ==
  \E ok \in BOOLEAN, raw \in ServerToolLists :
    /\ pc[ToolCaller] = "t_list"
    /\ pc' = [pc EXCEPT ![ToolCaller] = "t_done"]
    /\ IF ok
         THEN LET u == update_tools(raw, tools_meta, mcp_server_detail_info)
              IN  /\ tools' = u.tools
                  /\ tools_meta' = u.meta
                  /\ th' = [th EXCEPT
                       !.updated = TRUE, !.last = mcp_server_detail_info,
                       !.changed = u.changed, !.scheduled = FALSE,
                       !.repeat = FALSE,
                       !.disabled = MarkedDisabled(mcp_server_detail_info, @),
                       !.fetched = TRUE, !.advertised = raw,
                       !.listed = enabled_tools(u.tools, u.meta),
                       !.result = IF th.op = "list" THEN "listed"
                                  ELSE get_callable_result(u.tools, u.meta, th.name)]
         ELSE /\ raw = NoTools
              /\ th' = [th EXCEPT !.result = "raised"]
              /\ UNCHANGED <<tools, tools_meta>>
    /\ UNCHANGED <<guardVars, hist, mcp_server_detail_info, toolkit_refs,
                   notify_tasks>>
    /\ ToolFrame

\* The operation returns or raises to its caller.
TReturn ==
  /\ pc[ToolCaller] = "t_done"
  /\ pc' = [pc EXCEPT ![ToolCaller] = "idle"]
  /\ th' = [th EXCEPT !.op = "none", !.name = "calc", !.fetched = FALSE,
                      !.advertised = NoTools, !.listed = {}, !.result = "none"]
  /\ UNCHANGED <<guardVars, hist, tools, tools_meta, mcp_server_detail_info,
                 toolkit_refs, notify_tasks>>
  /\ ToolFrame

\* The subscription delivers a detail info to callback, which has no await:
\* it stores it, updates the tools and, when update_tools returned True and
\* a toolkit observes the client, creates a _notify_toolkits task.
TCallback ==
  \E d \in DetailInfos :
    /\ initialized
    /\ LET u == update_tools(tools, tools_meta, d)
           notify == u.changed /\ toolkit_refs # {}
       IN  /\ notify => notify_tasks < MaxNotifyTasks
           /\ mcp_server_detail_info' = d
           /\ tools' = u.tools
           /\ tools_meta' = u.meta
           /\ notify_tasks' = IF notify THEN notify_tasks + 1 ELSE notify_tasks
           /\ th' = [th EXCEPT
                !.repeat = th.updated /\ th.last = d,
                !.pushed = TRUE,
                !.updated = TRUE, !.last = d, !.changed = u.changed,
                !.scheduled = notify,
                !.disabled = MarkedDisabled(d, @)]
    /\ UNCHANGED <<pc, guardVars, hist, toolkit_refs>>
    /\ ToolFrame

\* _attach_toolkit(toolkit) with a toolkit, one of those given, that is not
\* yet in _toolkit_refs.
attach_toolkit(among) ==
  /\ \E t \in among \ toolkit_refs : toolkit_refs' = toolkit_refs \cup {t}
  /\ UNCHANGED <<pc, guardVars, hist, tools, tools_meta,
                 mcp_server_detail_info, notify_tasks, th>>
  /\ ToolFrame

TAttachToolkit == attach_toolkit(Observers)

\* _detach_toolkit(toolkit) with a toolkit of _toolkit_refs.
detach_toolkit(track) ==
  /\ \E t \in toolkit_refs :
       /\ toolkit_refs' = toolkit_refs \ {t}
       /\ th' = [th EXCEPT !.due = IF track THEN @ \ {t} ELSE @]
  /\ UNCHANGED <<pc, guardVars, hist, tools, tools_meta,
                 mcp_server_detail_info, notify_tasks>>
  /\ ToolFrame

TDetachToolkit == detach_toolkit(FALSE)

TInit ==
  /\ readers = 0
  /\ writers = 0
  /\ behindWriter = FALSE
  /\ pc = [t \in {ToolCaller} |-> "idle"]
  /\ ModelFresh
  /\ ListenerInit(FALSE, FALSE)
  /\ ToolsFresh
  /\ A2aFresh
  /\ UtilFresh

TNext ==
  \/ TCall
  \/ TInitService
  \/ TInitGetServer
  \/ TInitSubscribe
  \/ TProceed
  \/ TListFetch
  \/ TReturn
  \/ TCallback
  \/ TAttachToolkit
  \/ TDetachToolkit

SpecTools == TInit /\ [][TNext]_vars

\* ------------------------------ NacosMCPClientBase, _notify_toolkits tasks
\* The detail infos pushed while notifications are followed: one without
\* toolSpec, and with both tools described, calc disabled or no tool
\* disabled.
NotifyDetails ==
  {NoDetail,
   [toolSpec |-> TRUE, hasTools |-> TRUE, tools |-> [n \in ToolNames |-> NacosTool],
    toolsMeta |-> EmptyMeta],
   [toolSpec |-> TRUE, hasTools |-> TRUE, tools |-> [n \in ToolNames |-> NacosTool],
    toolsMeta |-> [none |-> FALSE,
                   of |-> [n \in ToolNames |-> IF n = "calc" THEN "off" ELSE "absent"]]]}

\* The tool lists the server returns while notifications are followed: no
\* tool, calc alone, or both tools.
NotifyToolLists ==
  {tl \in ServerToolLists : tl["search"].here => tl["calc"].here}

\* list(self._toolkit_refs): the toolkits of the set in an order of iteration
toolkit_lists(refs) ==
  {q \in [1..Cardinality(refs) -> refs] :
     \A i, j \in 1..Len(q) : i # j => q[i] # q[j]}

\* The subscription delivers a detail info to callback, as TCallback does;
\* asyncio.create_task(self._notify_toolkits()) makes a task that has not
\* run yet (tasks are anonymous: the new one takes the lowest free number).
notify_callback(track) ==
  \E d \in NotifyDetails :
    /\ initialized
    /\ LET u == update_tools(tools, tools_meta, d)
           notify == u.changed /\ toolkit_refs # {}
       IN  /\ mcp_server_detail_info' = d
           /\ tools' = u.tools
           /\ tools_meta' = u.meta
           /\ IF notify
                THEN \E n \in Notifiers :
                       /\ pc[n] = "n_idle"
                       /\ \A m \in Notifiers : m < n => pc[m] # "n_idle"
                       /\ pc' = [pc EXCEPT ![n] = "n_new"]
                ELSE UNCHANGED pc
           /\ th' = [th EXCEPT
                !.repeat = th.updated /\ th.last = d,
                !.pushed = TRUE,
                !.updated = TRUE, !.last = d, !.changed = u.changed,
                !.scheduled = notify,
                !.disabled = MarkedDisabled(d, @),
                !.due = IF track /\ u.changed THEN @ \cup toolkit_refs ELSE @]
    /\ UNCHANGED <<guardVars, hist, toolkit_refs, notify_tasks, notifyVars>>
    /\ NotifyFrame

NCallback == notify_callback(FALSE)

\* mutant: _notify_toolkits does not look at _is_updating
notify_skip_never(flag) == FALSE

\* _notify_toolkits: "if self._is_updating: return"
notify_skip(flag) == flag

\* The pass of task n is over: the finally clause and the release of the
\* lock; the task ends.
notify_end(n) ==
  /\ is_updating' = FALSE
  /\ update_lock' = NoTask
  /\ snap' = [snap EXCEPT ![n] = <<>>]
  /\ pc' = [pc EXCEPT ![n] = "n_idle"]

\* Task n runs _notify_toolkits up to its first suspension: it returns when
\* a pass is in progress or no toolkit observes the client; it waits for
\* _update_lock when that is held; else it takes the lock, sets the flag
\* and, for the first toolkit of its list, removes the client's tools
\* (Toolkit.remove_mcp_clients) and calls Toolkit.register_mcp_client,
\* which awaits list_tools, suspended in _list_tools_impl.  A task that
\* waited for the lock goes on from there when the lock is free.
NStart ==
  \E n \in Notifiers :
    /\ \/ pc[n] = "n_new"
       \/ pc[n] = "n_lock" /\ update_lock = NoTask
    /\ IF pc[n] = "n_new" /\ notify_skip(is_updating)
         THEN /\ pc' = [pc EXCEPT ![n] = "n_idle"]
              /\ th' = [th EXCEPT !.skipped = TRUE]
              /\ UNCHANGED notifyVars
         ELSE \E q \in toolkit_lists(toolkit_refs) :
                LET toolkits == IF pc[n] = "n_lock" THEN snap[n] ELSE q
                IN  IF toolkits = <<>>
                      THEN /\ pc' = [pc EXCEPT ![n] = "n_idle"]
                           /\ UNCHANGED <<notifyVars, th>>
                    ELSE IF update_lock # NoTask
                      THEN /\ pc' = [pc EXCEPT ![n] = "n_lock"]
                           /\ snap' = [snap EXCEPT ![n] = toolkits]
                           /\ UNCHANGED <<is_updating, update_lock, tk, th>>
                    ELSE /\ update_lock' = n
                         /\ is_updating' = TRUE
                         /\ snap' = [snap EXCEPT ![n] = toolkits]
                         /\ tk' = [tk EXCEPT ![Head(toolkits)] = {}]
                         /\ pc' = [pc EXCEPT ![n] = "n_list"]
                         /\ UNCHANGED th
    /\ UNCHANGED <<guardVars, hist, tools, tools_meta, mcp_server_detail_info,
                   toolkit_refs, notify_tasks>>
    /\ NotifyFrame

\* _list_tools_impl returns to list_tools, called by register_mcp_client for
\* the toolkit being synchronized, or raises: list_tools caches and updates
\* the tools and the toolkit registers the enabled ones; an exception is
\* logged by the loop.  Then the next toolkit of the list is taken up as in
\* NStart, or the pass ends.
notify_listed(track) ==
  \E n \in Notifiers, ok \in BOOLEAN, raw \in NotifyToolLists :
    /\ pc[n] = "n_list"
    /\ ~ok => raw = NoTools
    /\ LET t == Head(snap[n])
           rest == Tail(snap[n])
           u == update_tools(raw, tools_meta, mcp_server_detail_info)
           tk1 == IF ok THEN [tk EXCEPT ![t] = enabled_tools(u.tools, u.meta)]
                  ELSE tk
           over == IF rest = <<>> THEN FALSE ELSE th.skipped
       IN  /\ IF ok
                THEN /\ tools' = u.tools
                     /\ tools_meta' = u.meta
                     /\ th' = [th EXCEPT
                          !.updated = TRUE, !.last = mcp_server_detail_info,
                          !.changed = u.changed, !.scheduled = FALSE,
                          !.repeat = FALSE,
                          !.disabled = MarkedDisabled(mcp_server_detail_info, @),
                          !.skipped = over,
                          !.due = IF track /\ offered(raw) # offered(tools)
                                    THEN @ \cap {t} ELSE @]
                ELSE /\ th' = [th EXCEPT !.skipped = over,
                                         !.due = IF track THEN @ \ {t} ELSE @]
                     /\ UNCHANGED <<tools, tools_meta>>
           /\ IF rest = <<>>
                THEN /\ tk' = tk1
                     /\ notify_end(n)
                ELSE /\ tk' = [tk1 EXCEPT ![Head(rest)] = {}]
                     /\ snap' = [snap EXCEPT ![n] = rest]
                     /\ UNCHANGED <<pc, is_updating, update_lock>>
    /\ UNCHANGED <<guardVars, hist, mcp_server_detail_info, toolkit_refs,
                   notify_tasks>>
    /\ NotifyFrame

NListed == notify_listed(FALSE)

NInit ==
  /\ readers = 0
  /\ writers = 0
  /\ behindWriter = FALSE
  /\ pc = [t \in {ToolCaller} \cup Notifiers |->
            IF t = ToolCaller THEN "idle" ELSE "n_idle"]
  /\ ModelFresh
  /\ ListenerInit(FALSE, FALSE)
  /\ ToolsFresh
  /\ A2aFresh
  /\ UtilFresh

\* The calling task is followed up to the end of _ensure_initialized; from
\* then on the pushes, the toolkits and the notification tasks act.
NNext ==
  \/ TCall
  \/ TInitService
  \/ TInitGetServer
  \/ TInitSubscribe
  \/ NCallback
  \/ TAttachToolkit
  \/ TDetachToolkit
  \/ NStart
  \/ NListed

SpecNotify == NInit /\ [][NNext]_vars

\* The same with every toolkit attachable, to follow the passes over more
\* toolkits than one, and with the history th.due kept.
SAttachToolkit == attach_toolkit(Toolkits)
SDetachToolkit == detach_toolkit(TRUE)
SCallback == notify_callback(TRUE)
SListed == notify_listed(TRUE)

SyncNext ==
  \/ TCall
  \/ TInitService
  \/ TInitGetServer
  \/ TInitSubscribe
  \/ SCallback
  \/ SAttachToolkit
  \/ SDetachToolkit
  \/ NStart
  \/ SListed

SpecSync == NInit /\ [][SyncNext]_vars

\* -------------------------------------------------------- A2aAgent, actions
A2aFrame ==
  UNCHANGED <<lockVars, guardVars, modelVars, promptVars, toolVars, utilVars>>

\* reply, after the try statement: clear the observed messages, print and
\* return response_msg.
reply_return(h, msg) ==
  /\ observed_msgs' = 0
  /\ response_msg' = NoMsg
  /\ ah' = [h EXCEPT !.result = "returned", !.returned = msg]
  /\ pc' = [pc EXCEPT ![Replier] = "a_done"]

\* The operation raises: kind is "raised" or "cancelled".
a2a_raise(h, kind) ==
  /\ response_msg' = NoMsg
  /\ ah' = [h EXCEPT !.result = kind]
  /\ pc' = [pc EXCEPT ![Replier] = "a_done"]
  /\ UNCHANGED observed_msgs

\* mutant: cancellation is handled like any exception
reply_except_any(kind) == "message"

\* reply's except clauses for an exception raised in the try statement:
\* CancelledError is raised again ("propagate"), any other Exception
\* becomes the error message.
reply_except(kind) == IF kind = "cancel" THEN "propagate" ELSE "message"

\* mutant: no message is made up for a stream that yielded nothing
finally_response_asis(resp) == resp

\* reply's finally clause: the "No response received" error message when
\* response_msg is None.
finally_response(resp) == IF resp = NoMsg THEN ErrorMsg("noresp") ELSE resp

\* An exception of kind "raise" or "cancel" is raised in the try statement.
reply_raised(h, kind) ==
  IF reply_except(kind) = "propagate"
    THEN a2a_raise(h, "cancelled")
    ELSE reply_return([h EXCEPT !.failed = TRUE],
                      finally_response(ErrorMsg("error")))

\* The messages in _observed_msgs when total messages were observed and
\* stored of them are held.
stored_msgs(total, stored) == (total - stored + 1) .. total

\* msgs_list = list(self._observed_msgs), converted to the outbound
\* message: every message held is merged into one more outbound message.
merged(total, stored, sent) ==
  [i \in 1..total |->
     IF i \in stored_msgs(total, stored) /\ sent[i] < 2 THEN sent[i] + 1
     ELSE sent[i]]

\* reply from the return of _ensure_ready to the await of _get_agent_card:
\* without any message it returns the prompt for input; otherwise it builds
\* the outbound A2A message.
reply_begin(h) ==
  IF observed_msgs = 0 /\ ~h.input
    THEN /\ response_msg' = NoMsg
         /\ ah' = [h EXCEPT !.result = "returned", !.returned = PlainMsg("prompt")]
         /\ pc' = [pc EXCEPT ![Replier] = "a_done"]
         /\ UNCHANGED observed_msgs
    ELSE /\ response_msg' = NoMsg
         /\ ah' = [h EXCEPT !.built = TRUE, !.known = h.session,
                            !.outbound = convert_msgs_to_a2a_message_ids,
                            !.sent = IF h.track
                                       THEN merged(h.total, observed_msgs, @)
                                       ELSE @]
         /\ pc' = [pc EXCEPT ![Replier] = "a_card"]
         /\ UNCHANGED observed_msgs

\* A task calls reply(msg) or _get_agent_card(); reply starts with
\* "await self._ensure_ready()", which returns at once when the agent is
\* ready.
ACall ==
  \E op \in {"reply", "get_card"}, input \in BOOLEAN :
    /\ pc[Replier] = "idle"
    /\ LET h == [ah EXCEPT !.op = op, !.input = input, !.result = "running",
                           !.before = agent_card]
       IN  IF op = "get_card"
             THEN /\ ~input
                  /\ ah' = h
                  /\ pc' = [pc EXCEPT ![Replier] = "a_card"]
                  /\ UNCHANGED <<observed_msgs, response_msg>>
             ELSE IF is_ready
               THEN reply_begin(h)
               ELSE /\ ah' = h
                    /\ pc' = [pc EXCEPT ![Replier] = "a_ready"]
                    /\ UNCHANGED <<observed_msgs, response_msg>>
    /\ UNCHANGED <<is_ready, agent_card>>
    /\ A2aFrame

\* _ensure_ready from the return of the resolver: validate the card, cache
\* it, build the client factory; any exception leaves reply.
AEnsureReady ==
  \E r \in Resolutions :
    /\ pc[Replier] = "a_ready"
    /\ IF r.kind = "cancel"
         THEN /\ a2a_raise([ah EXCEPT !.resolution = r], "cancelled")
              /\ UNCHANGED <<is_ready, agent_card>>
       ELSE IF r.kind = "raise" \/ ~validate_agent_card(r.card)
         THEN /\ a2a_raise([ah EXCEPT !.resolution = r], "raised")
              /\ UNCHANGED <<is_ready, agent_card>>
       ELSE /\ agent_card' = r.card
            /\ is_ready' = TRUE
            /\ reply_begin([ah EXCEPT !.before = r.card])
    /\ A2aFrame

\* _get_agent_card from the return of the resolver, and in reply
\* _a2a_client_factory.create(card), which returns or raises; reply turns
\* an exception into the error message.
AGetCard ==
  \E r \in Resolutions, created \in BOOLEAN :
    /\ pc[Replier] = "a_card"
    /\ (r.kind = "cancel" \/ ah.op = "get_card") => created
    /\ LET g == get_agent_card(agent_card, r)
           h == [ah EXCEPT !.resolution = r]
       IN  IF r.kind = "cancel"
             THEN /\ IF ah.op = "get_card" THEN a2a_raise(h, "cancelled")
                     ELSE reply_raised(h, "cancel")
                  /\ UNCHANGED agent_card
           ELSE /\ agent_card' = g.cached
                /\ IF ah.op = "get_card"
                     THEN /\ ah' = [h EXCEPT !.card = g.card,
                                     !.result = IF g.raises THEN "raised" ELSE "card"]
                          /\ pc' = [pc EXCEPT ![Replier] = "a_done"]
                          /\ UNCHANGED <<observed_msgs, response_msg>>
                     ELSE IF g.raises \/ ~created
                       THEN reply_raised(h, "raise")
                       ELSE /\ ah' = [h EXCEPT !.card = g.card]
                            /\ pc' = [pc EXCEPT ![Replier] = "a_stream"]
                            /\ UNCHANGED <<observed_msgs, response_msg>>
    /\ UNCHANGED is_ready
    /\ A2aFrame

\* One step of "async for item in client.send_message(a2a_message)" with
\* the loop body, or the end of the loop with the except and finally
\* clauses.
AStream ==
  \E item \in StreamItems :
    /\ pc[Replier] = "a_stream"
    /\ item.kind \in {"message", "pair"} => Len(ah.seen) < MaxItems
    /\ LET h == [ah EXCEPT !.last = item]
       IN  CASE item.kind = "message" ->
                  /\ response_msg' = PlainMsg("direct")
                  /\ ah' = [h EXCEPT !.seen = Append(@, "message")]
                  /\ UNCHANGED <<pc, observed_msgs>>
             [] item.kind = "pair" ->
                  /\ response_msg' =
                       IF item.state = "completed"
                         THEN convert_task_artifacts_to_msg(item.artifacts)
                         ELSE PlainMsg("status")
                  /\ ah' = [h EXCEPT !.session = item.ids,
                                      !.seen = Append(@, item.state),
                                      !.lastArtifacts = item.artifacts]
                  /\ UNCHANGED <<pc, observed_msgs>>
             [] item.kind = "end" ->
                  reply_return(h, finally_response(response_msg))
             [] OTHER ->
                  reply_raised(h, item.kind)
    /\ UNCHANGED <<is_ready, agent_card>>
    /\ A2aFrame

\* The operation returns or raises to its caller.
AReturn ==
  /\ pc[Replier] = "a_done"
  /\ pc' = [pc EXCEPT ![Replier] = "idle"]
  /\ ah' = [NoReply EXCEPT
              !.session = ah.session,
              !.track = ah.track,
              !.total = ah.total,
              !.sent = ah.sent,
              !.prevError = IF ah.op = "reply"
                              THEN ah.result = "returned" /\ ah.returned.error
                              ELSE ah.prevError]
  /\ UNCHANGED <<is_ready, agent_card, observed_msgs, response_msg>>
  /\ A2aFrame

\* observe(msg) with one message.
AObserve ==
  /\ IF ah.track THEN ah.total < MaxObserved ELSE observed_msgs < MaxObserved
  /\ observed_msgs' = observed_msgs + 1
  /\ ah' = IF ah.track THEN [ah EXCEPT !.total = @ + 1, !.sent = Append(@, 0)]
           ELSE ah
  /\ UNCHANGED <<pc, is_ready, agent_card, response_msg>>
  /\ A2aFrame

AInit ==
  /\ readers = 0
  /\ writers = 0
  /\ behindWriter = FALSE
  /\ pc = [t \in {Replier} |-> "idle"]
  /\ ModelFresh
  /\ ListenerInit(FALSE, FALSE)
  /\ ToolsFresh
  /\ A2aFresh
  /\ UtilFresh

ANext ==
  \/ ACall
  \/ AEnsureReady
  \/ AGetCard
  \/ AStream
  \/ AReturn
  \/ AObserve

SpecA2A == AInit /\ [][ANext]_vars

\* The same with the history of the observed messages kept.
ObserveInit ==
  /\ readers = 0
  /\ writers = 0
  /\ behindWriter = FALSE
  /\ pc = [t \in {Replier} |-> "idle"]
  /\ ModelFresh
  /\ ListenerInit(FALSE, FALSE)
  /\ ToolsFresh
  /\ is_ready = FALSE
  /\ agent_card = NoCard
  /\ observed_msgs = 0
  /\ response_msg = NoMsg
  /\ ah = [NoReply EXCEPT !.track = TRUE]
  /\ UtilFresh

SpecObserve == ObserveInit /\ [][ANext]_vars

\* ---------------------------------------------------------------- claims
\* C1: in every reachable state at most one task holds the write lock, no
\* task holds the read lock while a task holds the write lock, and neither
\* count is negative; the counts are the numbers of holders.
C1_Exclusion ==
  /\ writers <= 1
  /\ (writers = 1 => readers = 0)
  /\ readers >= 0
  /\ writers >= 0
  /\ Cardinality({t \in Tasks : pc[t] = "writing"}) = writers
  /\ Cardinality({t \in Tasks : pc[t] = "reading"}) = readers

\* C1 witness: a task holds the write lock while a reader and another
\* writer are kept waiting.
C1_Witness ==
  /\ writers = 1
  /\ \E w \in Tasks : pc[w] = "writing"
  /\ reader_condition_waiters # {}
  /\ writer_condition_waiters # {}

\* C2 as stated: acquire_read never returns while a task is waiting inside
\* acquire_write: an arriving reader does not pass a blocked writer.
C2_NoReaderPastWaitingWriter == ~behindWriter

\* C2 amended: acquire_read returns only while no task holds the write lock;
\* a writer that is merely waiting for readers does not hold new readers back.
C2_ReadOnlyWithoutWriter ==
  [][\A t \in Tasks :
       (pc[t] # "reading" /\ pc'[t] = "reading") => writers = 0 /\ writers' = 0]_vars

\* C2 witness: a reader obtained the read lock while a writer was blocked
\* waiting for the current readers, and that writer is still waiting.
C2_Witness ==
  /\ behindWriter
  /\ readers = 2
  /\ writer_condition_waiters # {}

\* Callers whose _ensure_initialized has returned normally and whose
\* __call__ has not finished yet.
Returned(t) == pc[t] \in {"ei_ret", "ar_wait", "ar_woken", "in_provider"}

\* Tasks inside _async_init.
InBody(t) ==
  pc[t] \in {"ai_service", "ai_fetch", "set_call", "aw_wait", "aw_woken",
             "writing", "ai_listen"}

\* C3: when tasks call _ensure_initialized concurrently on an uninitialized
\* component and _async_init does not raise, _async_init executes once and a
\* caller returns only after that execution has completed.
C3_InitOnce ==
  ~hist.initFailed =>
    /\ hist.initRuns <= 1
    /\ Cardinality({t \in Callers : InBody(t)}) <= 1
    /\ \A t \in Callers :
         Returned(t) => initialized /\ ~initializing /\ hist.initRuns = 1

\* C3 witness: the one execution has completed, one caller has returned and
\* another, which called while it ran, is still in its sleep.
C3_Witness ==
  /\ ~hist.initFailed
  /\ initialized
  /\ hist.initRuns = 1
  /\ \E t, u \in Callers : pc[t] = "ei_ret" /\ pc[u] = "ei_poll"

\* C4 as stated: no call of _ensure_initialized returns normally while the
\* component is not initialized (when _async_init raises, every concurrent
\* call raises).
C4_NoReturnUninitialized ==
  \A t \in Callers : pc[t] = "ei_ret" => initialized

\* C5: when _async_init raises, the guard is back in the uninitialized state
\* (_initialized and _initializing False, _init_lock free) as the exception
\* reaches the caller that ran the body, and the next call of
\* _ensure_initialized executes _async_init again.
C5_FailureResets ==
  [][\A t \in Callers :
       /\ (pc[t] # "ei_raised" /\ pc'[t] = "ei_raised") =>
            /\ InBody(t)
            /\ ~initialized' /\ ~initializing' /\ init_lock' = NoTask
       /\ (pc[t] = "idle" /\ pc'[t] # "idle" /\ hist.initCause # "none") =>
            /\ pc'[t] = "ai_service"
            /\ initializing'
            /\ hist'.initRuns = hist.initRuns + 1]_vars

\* C5 witness: after an execution that raised, a later call is executing
\* _async_init again.
C5_Witness ==
  /\ hist.initFailed
  /\ hist.initRuns = 2
  /\ \E t \in Callers : pc[t] = "ai_service" /\ init_lock = t

\* C6: a __call__ suspended inside a provider runs against the active
\* provider: chat_model is not replaced while the call is in flight, and a
\* call that starts after a set_chat_model completed is delegated to the
\* provider that set_chat_model installed.
C6_HotSwap ==
  \A t \in Callers :
    pc[t] = "in_provider" => callee[t] = chat_model /\ callee[t] = hist.lastSet

\* C6 witness: a push has built a new provider and its set_chat_model waits
\* for the write lock while a __call__ is suspended in the active provider.
C6_Witness ==
  /\ pc[Listener] = "aw_wait"
  /\ pending[Listener].id > 0
  /\ \E t \in Callers :
       /\ pc[t] = "in_provider"
       /\ callee[t].id > 0
       /\ callee[t] # pending[Listener]

\* C7: a push to an initialized NacosChatModel that fails while no backup
\* model is set raises out of the listener, and chat_model is still the
\* instance that was active when the push was delivered.
C7_FailedPushKeepsProvider ==
  /\ (backup_model = None /\ hist.pushes > 0) =>
       hist.pushResult \in {"swapped", "raised"}
  /\ hist.pushResult = "raised" =>
       /\ backup_model = None
       /\ pc[Listener] = "idle"
       /\ chat_model = hist.pushBefore
       /\ chat_model # None

\* C7 witness: a push raised out of the listener and the provider built
\* before it is still active.
C7_Witness ==
  /\ hist.pushResult = "raised"
  /\ chat_model.id > 0
  /\ chat_model = hist.pushBefore

\* C8 as stated: with a backup model supplied, a failure to fetch or parse
\* the model spec or to construct the provider does not fail the
\* initialisation.
C8_BackupCoversFetchAndParse ==
  backup_model # None => hist.initCause \notin {"fetch", "parse", "construct"}

\* C8 amended: with a backup model supplied a failed construction of the
\* provider does not fail the initialisation, which installs the backup (a
\* failure to fetch or parse the model spec propagates with or without a
\* backup); an initialisation that raised leaves _initialized False with the
\* guard free for a later call to retry.
C8_BackupCoversConstruction ==
  /\ backup_model # None => hist.initCause # "construct"
  /\ (initialized /\ hist.pushes = 0) =>
       /\ chat_model # None
       /\ hist.initPath \in {"primary", "backup"}
       /\ hist.initPath = "backup" => chat_model = backup_model
       /\ hist.initPath = "primary" => chat_model.id > 0
  /\ hist.initCause # "none" =>
       ~initialized /\ ~initializing /\ init_lock = NoTask

\* C8 witness: the construction failed and the initialisation completed
\* with the backup as the active provider.
C8_Witness ==
  /\ initialized
  /\ hist.initPath = "backup"
  /\ chat_model = Backup
  /\ hist.pushes = 0

\* The prompt a handled prompt-config push asks for: the template fetched
\* for a new promptRef, the known template of an unchanged promptRef, or the
\* payload's own "prompt" (NoPrompt when it has neither).
PushedPrompt ==
  IF hloc.cfg.ref # NoKey
    THEN IF hloc.cfg.ref = hloc.old THEN template ELSE hloc.fetched
    ELSE hloc.cfg.prompt

PromptSpecMissing == ph.cfgFetch \in {"absent", "empty"}
ModelSpecMissing == ph.modelFetch \in {"absent", "empty"}

C9_MissingPromptSpecWaits ==
  /\ PromptSpecMissing => hist.initCause \in {"none", "listen"}
  /\ cfg_listeners = (IF initialized THEN 1 ELSE 0)
  /\ ModelSpecMissing =>
       /\ ~initialized
       /\ hist.initCause = "model"
       /\ l_chat_model # "ready"
       /\ pc[Initer] \in {"ei_raised", "idle"}

C9_FirstPushSetsPrompt ==
  (/\ PromptSpecMissing
   /\ pc[CfgTask] # "h_done"
   /\ pc'[CfgTask] = "h_done"
   /\ hist'.pushes = 1
   /\ ~hloc'.interfered
   /\ PushedPrompt' \notin {NoPrompt, ""})
  => /\ prompt' = PushedPrompt'
     /\ agent'.attached => agent'.sys_prompt = PushedPrompt'

\* C9: with listen_prompt enabled, an absent or empty prompt.json does not
\* fail the initialisation (only a raising add_listener can), an
\* initialised listener has exactly one listener on prompt.json, and the
\* first pushed valid prompt config that is handled to its end sets
\* self.prompt and the attached agent's system prompt; whereas an absent or
\* empty model.json makes the initialisation of the NacosChatModel raise,
\* and the listener's with it.
C9_PromptWaitsModelFails ==
  [](C9_MissingPromptSpecWaits) /\ [][C9_FirstPushSetsPrompt]_vars

\* C9 witness: an execution found model.json missing and raised; a later one
\* found prompt.json missing and completed with one listener; the first
\* push, of {prompt: "tA"} or of a promptRef whose template is "tA", has just
\* been handled and "tA" is the prompt of the listener and of its agent.
C9_Witness ==
  /\ ph.modelMissing
  /\ PromptSpecMissing
  /\ initialized
  /\ cfg_listeners = 1
  /\ pc[CfgTask] = "h_done"
  /\ hist.pushes = 1
  /\ PushedPrompt = "tA"
  /\ prompt = "tA"
  /\ agent.attached
  /\ agent.sys_prompt = "tA"

C11_RepeatedUpdateUnchanged ==
  th.repeat => (~th.changed /\ ~th.scheduled)

\* C12: when list_tools returns, it returns exactly the tools the server
\* advertised that the last metadata does not mark enabled = false; when
\* get_callable_function ends without an error of its calls, it has found
\* no tool marked disabled, and its outcome for a disabled tool is the
\* not-found ValueError it has for a tool that is not advertised.
C12_DisabledToolsHidden ==
  [][(pc[ToolCaller] # "t_done" /\ pc'[ToolCaller] = "t_done")
     => /\ th'.fetched =>
             th'.listed = {n \in ToolNames : th'.advertised[n].here} \ th'.disabled
        /\ th'.result = "found" =>
             th'.name \notin th'.disabled /\ tools'[th'.name].here
        /\ (/\ th'.op = "get"
            /\ th'.result # "raised"
            /\ (th'.name \in th'.disabled \/ ~tools'[th'.name].here))
           => th'.result = "not_found"]_vars

\* C12 witness: a pushed detail info marks calc disabled and search enabled;
\* get_callable_function("calc") went through list_tools, which returned
\* search alone of the two advertised tools, and ended with not-found.
C12_Witness ==
  /\ pc[ToolCaller] = "t_done"
  /\ th.pushed
  /\ th.disabled = {"calc"}
  /\ th.op = "get"
  /\ th.name = "calc"
  /\ th.fetched
  /\ th.advertised = [n \in ToolNames |-> ServerTool]
  /\ th.listed = {"search"}
  /\ tools["calc"].here
  /\ th.result = "not_found"

\* C13: once a response has carried session ids, the outbound message the
\* next reply builds carries those ids.
C13_SessionIdsSticky ==
  (ah.built /\ ah.known # NoIds) => ah.outbound = ah.known

\* The parts of all artifacts of a task, in order.
RECURSIVE ArtifactParts(_)
ArtifactParts(artifacts) ==
  IF artifacts = <<>> THEN <<>>
  ELSE Head(artifacts) \o ArtifactParts(Tail(artifacts))

\* The content an artifact message is expected to have: one block per part
\* of a known type, in the order of the parts.
ExpectedContent(artifacts) ==
  LET known == SelectSeq(ArtifactParts(artifacts),
                         LAMBDA p : p.kind = "text")
  IN  [i \in 1..Len(known) |->
         IF known[i] = PHm THEN [type |-> "thinking", thinking |-> known[i].text]
         ELSE [type |-> "text", text |-> known[i].text]]

ReplyEnded == pc[Replier] = "a_done" /\ ah.op = "reply"

\* C14: when the stream of a reply ends normally and the last item it
\* yielded is a (task, update) pair with state completed and a task that
\* has artifacts, reply returns the artifact message, whose content is the
\* converted parts of the artifacts in order.
C14_CompletedReturnsArtifacts ==
  (/\ ReplyEnded
   /\ ah.last.kind = "end"
   /\ ah.seen # <<>>
   /\ ah.seen[Len(ah.seen)] = "completed"
   /\ ah.lastArtifacts # <<>>)
  => /\ ah.result = "returned"
     /\ ah.returned.kind = "artifact"
     /\ ~ah.returned.error
     /\ ah.returned.content = ExpectedContent(ah.lastArtifacts)

\* C14 witness: the stream yielded working, then completed with one
\* artifact holding the text part "42", and reply returned the text "42".
C14_Witness ==
  /\ ReplyEnded
  /\ ah.last.kind = "end"
  /\ ah.seen = <<"working", "completed">>
  /\ ah.lastArtifacts = << <<P42>> >>
  /\ ah.result = "returned"
  /\ ah.returned = [kind |-> "artifact",
                    content |-> <<[type |-> "text", text |-> <<"4", "2">>]>>,
                    error |-> FALSE]

\* C15: when creating the client or the stream raised an exception other
\* than a cancellation, or the stream ended without an item, reply returns
\* a message flagged as an error, and the agent stays ready for the next
\* reply.
C15_FailureIsAMessage ==
  (/\ ReplyEnded
   /\ ah.built
   /\ \/ ah.failed
      \/ ah.last.kind = "raise"
      \/ (ah.last.kind = "end" /\ ah.seen = <<>>))
  => /\ ah.result = "returned"
     /\ ah.returned.error
     /\ ah.returned.kind \in {"error", "noresp"}
     /\ is_ready
     /\ agent_card # NoCard

\* C15 witness: the reply before returned an error message, and this one
\* has returned the artifacts of a completed task.
C15_Witness ==
  /\ ReplyEnded
  /\ ah.prevError
  /\ ah.result = "returned"
  /\ ah.returned.kind = "artifact"
  /\ ~ah.returned.error

\* C16: when the task is cancelled while reply awaits the agent card or the
\* stream, reply raises the cancellation and returns no message.
C16_CancellationPropagates ==
  (/\ ReplyEnded
   /\ ah.built
   /\ (ah.last.kind = "cancel" \/ ah.resolution.kind = "cancel"))
  => /\ ah.result = "cancelled"
     /\ ah.returned = NoMsg

\* C16 witness: the stream yielded a status update and the task was
\* cancelled then.
C16_Witness ==
  /\ ReplyEnded
  /\ ah.seen = <<"working">>
  /\ ah.last.kind = "cancel"
  /\ ah.result = "cancelled"
  /\ ah.returned = NoMsg

\* A card whose URL has a scheme and a host.
WellFormed(card) == card.url = "http://agent.example/rpc"

CardResolved ==
  /\ pc[Replier] = "a_done"
  /\ ah.op = "get_card"
  /\ ah.resolution.kind # "cancel"

\* C20: the cached card is never an invalid one; _get_agent_card returns and
\* caches the resolved card when it is valid; when the resolution raises or
\* yields an invalid card it returns the card cached before, which stays
\* cached, and raises when there is none.
C20_CardValidatedWithFallback ==
  /\ agent_card # NoCard => WellFormed(agent_card)
  /\ CardResolved =>
       IF ah.resolution.kind = "card" /\ WellFormed(ah.resolution.card)
         THEN /\ ah.result = "card"
              /\ ah.card = ah.resolution.card
              /\ agent_card = ah.resolution.card
       ELSE IF ah.before # NoCard
         THEN /\ ah.result = "card"
              /\ ah.card = ah.before
              /\ agent_card = ah.before
       ELSE /\ ah.result = "raised"
            /\ agent_card = NoCard

\* C20 witness: with card c1 cached, the resolver yielded a card c2 without
\* host, and _get_agent_card returned c1 and kept it.
C20_Witness ==
  /\ CardResolved
  /\ ah.before = [id |-> "c1", url |-> "http://agent.example/rpc"]
  /\ ah.resolution = [kind |-> "card", card |-> [id |-> "c2", url |-> "http://"]]
  /\ ah.result = "card"
  /\ ah.card = ah.before
  /\ agent_card = ah.before


\* The fields of the listener and of the agent that attach_agent and the
\* getters could touch.
listenerState ==
  <<agent, original, prompt, template, user_prompt_ref, l_toolkit,
    l_chat_model, l_formatter, backup_model, chat_model, guardVars>>

\* C17: attach_agent and the three getters, called while the listener is
\* not initialized (never, while its initialisation runs, or after it
\* failed), raise and change neither the listener nor the agent.
C17_UninitializedCallsRaise ==
  [][(/\ lh.call = "none"
      /\ lh'.call \in Getters \cup {"attach"}
      /\ ~initialized)
     => /\ lh'.raised
        /\ UNCHANGED listenerState]_vars

\* C17 witness: the last initialisation failed in _init_listen_mcp_server,
\* leaving the toolkit with one server's tools, and get_toolkit then raised.
C17_Witness ==
  /\ lh.call = "get_toolkit"
  /\ lh.raised
  /\ ~lh.ready
  /\ ~initialized
  /\ ~initializing
  /\ hist.initCause = "mcp"
  /\ l_toolkit.tools = register_clients(EmptyToolkit, McpServers, 1)

\* C18: detach_agent, called while the listener is not initialized, raises.
C18_DetachUninitializedRaises ==
  [][(lh.call = "none" /\ lh'.call = "detach" /\ ~initialized)
     => lh'.raised]_vars

payload_differs(tl, meta, d) ==
  /\ d.toolSpec
  /\ \/ \E n \in ToolNames : (d.toolsMeta.of[n] = "off") # (meta.of[n] = "off")
     \/ /\ d.hasTools
        /\ \/ \E n \in ToolNames :
                /\ tl[n].here
                /\ d.tools[n].here
                /\ \/ d.tools[n].description \notin {NoText, tl[n].description}
                   \/ d.tools[n].arg \notin {NoText, tl[n].arg}
           \/ Cardinality({n \in ToolNames : d.tools[n].here})
                # Cardinality({n \in ToolNames : tl[n].here})

\* C27: update_tools, called by the callback, returns True exactly when the
\* detail info differs from the snapshot cached before the call in an
\* enabled flag, a description text or the number of tools.
C27_ChangeDetection ==
  [][(pc' = pc /\ th' # th /\ th'.updated)
     => th'.changed = payload_differs(tools, tools_meta, th'.last)]_vars


\* C21: _notify_toolkits removes or registers tools only in toolkits that
\* are in _toolkit_refs at that moment: a detached toolkit is not touched.
C21_DetachedToolkitUntouched ==
  [][\A t \in Toolkits : tk'[t] # tk[t] => t \in toolkit_refs]_vars

\* The tasks whose _notify_toolkits pass is in progress.
InPass == {n \in Notifiers : pc[n] = "n_list"}

\* C28: at most one pass is in progress; a task that starts
\* _notify_toolkits while _is_updating is set ends at once and changes no
\* toolkit; and _is_updating is set only while a pass is in progress, also
\* after register_mcp_client raised.
C28_NotifyReentrancyGuard ==
  [][/\ Cardinality(InPass') <= 1
     /\ is_updating' <=> InPass' # {}
     /\ \A n \in Notifiers :
          (pc[n] = "n_new" /\ pc'[n] # "n_new" /\ is_updating)
          => (pc'[n] = "n_idle" /\ tk' = tk)]_vars

\* C28 witness: a pass is in progress, suspended in the registration for a
\* toolkit, and a second task has found the flag set and returned.
C28_Witness ==
  /\ InPass # {}
  /\ is_updating
  /\ th.skipped
  /\ \E n \in Notifiers : pc[n] = "n_idle"

\* The toolkit an agent has: the listener's, the one it was built with, or
\* None.
toolkit_of(a, listener_toolkit) ==
  IF a.toolkit = "nacos" THEN listener_toolkit
  ELSE IF a.toolkit = "own" THEN [made |-> TRUE, tools |-> OwnTools]
  ELSE NoToolkit

\* C22: attach_agent of a listener with listen_mcp_server is an additive
\* merge: when it has returned, agent.toolkit holds every tool of the
\* toolkit the agent had before (the same function under the same name) and
\* a tool of every name the listener's toolkit had.
C22_AttachMergesTools ==
  [][(/\ lh.call = "none"
      /\ lh'.call = "attach"
      /\ ~lh'.raised
      /\ listen_mcp_server)
     => LET before == toolkit_of(lh'.given, l_toolkit)
            after == toolkit_of(agent', l_toolkit')
        IN  /\ after.made
            /\ \A n \in DOMAIN before.tools :
                 n \in DOMAIN after.tools /\ after.tools[n] = before.tools[n]
            /\ DOMAIN l_toolkit.tools \subseteq DOMAIN after.tools]_vars

\* The tools the servers of a list offer.
tools_of_servers(servers) ==
  UNION {ServerTools[servers[i]] : i \in 1..Len(servers)}

\* The listener's tool sources are those of mcp-server.json.
sources_match ==
  /\ mcp_server_clients = {mcp_config[i] : i \in 1..Len(mcp_config)}
  /\ {n \in DOMAIN l_toolkit.tools : l_toolkit.tools[n] = "mcp"}
       = tools_of_servers(mcp_config)

\* C23: once a listener with listen_mcp_server is initialized, its tool
\* sources (mcp_server_clients and the tools of its toolkit) follow
\* mcp-server.json: whenever they differ from the list in the registry, they
\* eventually match it.
C23_ServerListFollowed ==
  (initialized /\ listen_mcp_server /\ ~sources_match) ~> sources_match

\* C29: when _async_init raises after the chat model part has succeeded (in
\* _init_listen_mcp_server or in _init_listen_prompt), nothing is rolled
\* back: chat_model and formatter stay set and the NacosChatModel keeps its
\* provider and its subscription, the servers registered before the failure
\* stay in mcp_server_clients with their tools in the toolkit, and what the
\* prompt part did stays; is_initialized() is False and the exception
\* reaches the caller of _ensure_initialized.
C29_PartialInitKept ==
  [][(/\ listen_chat_model
      /\ hist.initCause = "none"
      /\ hist'.initCause \notin {"none", "service", "model"})
     => /\ pc'[Initer] = "ei_raised"
        /\ ~initialized'
        /\ ~initializing'
        /\ l_chat_model' = "ready"
        /\ l_formatter'
        /\ chat_model' = chat_model
        /\ model_listeners' = model_listeners
        /\ UNCHANGED <<user_prompt_ref, template, prompt, cfg_listeners,
                       content_listeners>>
        /\ IF pc[Initer] = "li_mcp"
             THEN \E k \in 0..Len(mcp_config) :
                    /\ mcp_server_clients' =
                         mcp_server_clients \cup {mcp_config[i] : i \in 1..k}
                    /\ DOMAIN l_toolkit'.tools =
                         tools_of_servers(SubSeq(mcp_config, 1, k))
             ELSE UNCHANGED <<l_toolkit, mcp_server_clients>>]_vars

\* C29 witness: the initialisation has raised in _init_listen_mcp_server
\* after the first server was registered; the chat model and the formatter
\* are set, the server is registered, the listener is not initialized.
C29_Witness ==
  /\ pc[Initer] = "ei_raised"
  /\ hist.initCause = "mcp"
  /\ listen_chat_model
  /\ l_chat_model = "ready"
  /\ l_formatter
  /\ mcp_server_clients = {"math"}
  /\ DOMAIN l_toolkit.tools = {"calc"}
  /\ ~initialized

\* C30: a background task exists only when __init__ found a running event
\* loop; an exception of _async_init reaches only the task that executed it
\* (the background task's failure raises in no other task), and once the
\* background task has failed, a call of initialize() executes _async_init
\* again.
C30_BackgroundInit ==
  [][/\ pc[BgTask] = "no_task" => pc'[BgTask] = "no_task"
     /\ \A t \in {Initer, BgTask} :
          (pc[t] # "ei_raised" /\ pc'[t] = "ei_raised") => init_lock = t
     /\ (/\ pc[BgTask] \in {"ei_raised", "bg_failed"}
         /\ ~initialized
         /\ pc[Initer] = "idle"
         /\ pc'[Initer] # "idle")
        => /\ pc'[Initer] = "ai_service"
           /\ hist'.initRuns = hist.initRuns + 1]_vars

\* C30 witness: the background task has failed and a later initialize()
\* is executing _async_init, the second execution.
C30_Witness ==
  /\ pc[BgTask] = "bg_failed"
  /\ pc[Initer] = "ai_service"
  /\ hist.initRuns = 2
  /\ ~initialized

\* C24: validate_agent_name either raises ValueError or returns its
\* argument with every space replaced by '_'; a returned name is not empty,
\* has at most 128 characters and only letters, digits, '.', ':', '_' and
\* '-'.
C24_ValidatedName ==
  vh.called =>
    \/ vh.result.raised
    \/ /\ vh.result.value = replace_spaces(vh.name)
       /\ vh.result.value # <<>>
       /\ name_len(vh.result.value) <= NameLimit
       /\ \A i \in 1..Len(vh.result.value) :
            vh.result.value[i].ch \in NameChars

\* C25: the getters of a NacosExtension return the arguments it was built
\* with, after any number of getter calls, and leave its fields alone.
C25_GettersReturnArguments ==
  /\ extension = [server_addr |-> xh.server_addr, namespace |-> xh.namespace]
  /\ xh.call = "get_server_addr" => xh.returned = xh.server_addr
  /\ xh.call = "get_namespace" => xh.returned = xh.namespace

\* C25 witness: the extension of the repository's test, its second getter
\* call being get_namespace.
C25_Witness ==
  /\ xh.server_addr = "localhost:8848"
  /\ xh.namespace = "test-namespace"
  /\ xh.calls = 2
  /\ xh.call = "get_namespace"
  /\ xh.returned = "test-namespace"

\* C26: when the stream of a reply yields only (task, update) pairs and
\* ends normally, reply returns the last message it built from the last
\* pair: the artifact message when that task has artifacts, else the status
\* message, whatever the state of the task.
C26_LastMessageReturned ==
  (/\ ReplyEnded
   /\ ah.last.kind = "end"
   /\ ah.seen # <<>>
   /\ \A i \in 1..Len(ah.seen) : ah.seen[i] # "message")
  => /\ ah.result = "returned"
     /\ ~ah.returned.error
     /\ ah.returned.kind =
          IF ah.lastArtifacts # <<>> THEN "artifact" ELSE "status"

\* The text and thinking blocks with non-blank text, the tool_use blocks
\* and the tool_result blocks.
RoundTripBlock(b) ==
  \/ b.type = "text" /\ strip(b.text) # <<>>
  \/ b.type = "thinking" /\ strip(b.thinking) # <<>>
  \/ b.type \in {"tool_use", "tool_result"}

\* Block c has the type, the text or thinking content, the tool name, the
\* tool-call id and the input or output of block b.
SameBlock(b, c) ==
  /\ c.type = b.type
  /\ b.type = "text" => c.text = b.text
  /\ b.type = "thinking" => c.thinking = b.thinking
  /\ b.type \in {"tool_use", "tool_result"} => c.name = b.name /\ c.id = b.id
  /\ b.type = "tool_use" => c.input = b.input
  /\ b.type = "tool_result" => c.output = b.output

\* The metadata carries none of the keys of AgentScope.
NoAgentScopeMetadata(m) ==
  m.none \/ DOMAIN m.d \cap {BlockTypeKey, ToolNameKey, ToolCallIdKey} = {}

\* C31: a text or thinking block with non-blank text, a tool_use block or a
\* tool_result block converted to a part and back has the same type,
\* content, tool name, tool-call id and input or output; a TextPart or a
\* DataPart without AgentScope metadata converts to a plain TextBlock (of
\* its text, or of the JSON text of its data).
C31_BlockRoundTrip ==
  /\ (bh.op = "block" /\ RoundTripBlock(bh.block)) => SameBlock(bh.block, bh.back)
  /\ (bh.op = "part" /\ bh.part.kind = "text"
        /\ NoAgentScopeMetadata(bh.part.metadata))
       => bh.back = TextBlock(bh.part.text)
  /\ (bh.op = "part" /\ bh.part.kind = "data"
        /\ NoAgentScopeMetadata(bh.part.metadata))
       => bh.back = TextBlock(json_dumps(bh.part.data))

\* C31 witness: a tool_result block went to a DataPart carrying its type,
\* name and id as metadata, and came back.
C31_Witness ==
  /\ bh.op = "block"
  /\ bh.block = ToolResultBlock("call_2", "search", "4")
  /\ bh.part.kind = "data"
  /\ bh.part.metadata.d[ToolNameKey] = "search"
  /\ bh.back = ToolResultBlock("call_2", "search", "4")

\* C32: every message passed to observe is merged into the outbound
\* message of the next reply that sends and into no later one; a message
\* observed while a reply is in flight is still held, or was sent, after
\* that reply has cleared _observed_msgs: a message that is no longer held
\* was sent once, and no message was sent twice.
C32_ObservedSentOnce ==
  \A i \in 1..ah.total :
    /\ ah.sent[i] <= 1
    /\ i \notin stored_msgs(ah.total, observed_msgs) => ah.sent[i] = 1

\* The content listeners are registered on user_prompt_ref and nowhere else.
ListenersFollowRef ==
  \A k \in Keys :
    content_listeners[k] = IF k = user_prompt_ref THEN 1 ELSE 0

\* C33: on an initialized listener, whenever no prompt-config push is being
\* handled (every push so far was handled to its end, whether the handler
\* returned or raised), exactly one prompt-content listener is registered,
\* on the key user_prompt_ref, when that is not empty, and none otherwise.
C33_ContentListenerFollowsRef ==
  (initialized /\ pc[CfgTask] = "idle") => ListenersFollowRef

\* C40: when the handler of a pushed {promptRef: B} completes, having
\* started with user_prompt_ref = A (A non-empty, B # A), and a content push
\* for A was handled while it was suspended (only A had a listener, so
\* every content push handled in between was one for A), self.prompt is
\* B's template as the handler fetched it.
C40_SwitchWinsOverOldContent ==
  [][(/\ pc[CfgTask] = "h_add"
      /\ pc'[CfgTask] = "h_done"
      /\ hloc.old # ""
      /\ hloc.cfg.ref # hloc.old
      /\ \A k \in Keys \ {hloc.old} : content_listeners[k] = 0
      /\ hloc'.interfered)
     => prompt' = hloc.fetched]_vars

\* The lock's counters are the tasks that hold it, and every task
\* suspended in wait() waits for a holder, whose release will notify it.
LockConsistent ==
  /\ readers = Cardinality({t \in DOMAIN pc : pc[t] = "in_provider"})
  /\ writers = Cardinality({t \in DOMAIN pc : pc[t] = "writing"})
  /\ \A t \in DOMAIN pc :
       /\ pc[t] = "ar_wait" => writers > 0
       /\ pc[t] = "aw_wait" => (readers > 0 \/ writers > 0)

\* Task t is cancelled in this step while blocked in an acquire.
CancelledInAcquire(t) ==
  /\ pc[t] \in {"ar_wait", "ar_woken", "aw_wait", "aw_woken"}
  /\ pc'[t] = "idle"

\* Task t is cancelled in this step while it runs _async_init.
CancelledInInit(t) ==
  /\ pc[t] \in {"ai_service", "ai_fetch", "ai_listen"}
  /\ hist'.initCause = "cancel"
  /\ pc'[t] = "ei_raised"

NewAcquire == RWAcquireRead \/ RWAcquireWrite

\* Task t is inside acquire_read or acquire_write, waiting or notified.
Blocked(t) == pc[t] \in {"ar_wait", "ar_woken", "aw_wait", "aw_woken"}

\* C37: when every holder releases the lock and every notified task is
\* resumed, and from some point on no task calls acquire_read or
\* acquire_write any more, every task blocked in acquire_read or
\* acquire_write gets the lock.
C37_NoLostWakeup ==
  (<>[][~NewAcquire]_vars) =>
     \A t \in Tasks : [](Blocked(t) => <>(pc[t] \in {"reading", "writing"}))

\* C37 witness: a writer that waited has been notified by the last release
\* and finds the lock free, no task holding it and no other one waiting
\* un-notified.
C37_Witness ==
  /\ readers = 0
  /\ writers = 0
  /\ \E t \in Tasks : pc[t] = "aw_woken"
  /\ \E t \in Tasks : pc[t] = "ar_woken"
  /\ \A t \in Tasks : pc[t] \notin {"ar_wait", "aw_wait"}

\* On an initialized NacosChatModel, whenever no push is being handled,
\* model_provider is the provider of the instance held in chat_model.
ProviderMatchesModel ==
  (initialized /\ pc[Listener] = "idle") => model_provider = chat_model.provider

\* C38: on an initialized NacosChatModel, whenever no push is being
\* handled, model_provider is the provider of the instance held in
\* chat_model and get_formatter() returns that provider's formatter; each
\* of the five supported providers has its own formatter.
C38_FormatterMatchesModel ==
  /\ ProviderMatchesModel
  /\ (initialized /\ pc[Listener] = "idle") =>
       \A m \in BOOLEAN :
         get_formatter(m, model_provider) =
           [provider |-> chat_model.provider, multi |-> m]
  /\ \A p \in ProviderTags, m \in BOOLEAN :
       get_formatter(m, p) = [provider |-> p, multi |-> m]


\* C39: no tool change is lost to a notification in progress.  When no
\* _notify_toolkits task is left, every attached toolkit that was attached
\* when a change was detected, whose synchronization did not raise since
\* and since whose synchronization the server offered the same tools, holds
\* exactly the tools the client has enabled now.
C39_NoToolChangeLost ==
  (\A n \in Notifiers : pc[n] = "n_idle") =>
    \A t \in toolkit_refs \cap th.due : tk[t] = enabled_tools(tools, tools_meta)


\* C35: for every agent name the listener's initialisation accepts, the
\* lookups of model.json, mcp-server.json and prompt.json use one and the
\* same group.
C35_SameGroupForAllConfigs ==
  gh.step = "done" => gh.model = gh.mcp /\ gh.mcp = gh.prompt

\* C36: concurrent get_agent_card calls on a resolver that was not
\* initialized execute _async_init once, and every call that returns
\* returns a card, never None.
C36_InitOnceCardReturned ==
  /\ ~rv.failed => rv.runs <= 1
  /\ \A c \in CardCallers :
       rv.result[c].kind = "returned" => rv.result[c].card \in ResolverCards

====
